---------------------------- MODULE Spec2Model ----------------------------
(***************************************************************************)
(* Model of src/brokers/Robinhood.ts: the session state of the Robinhood   *)
(* client, its authentication lifecycle and the invalid-token recovery     *)
(* wrapped around every API call.                                          *)
(*                                                                         *)
(* One action is one turn of the JavaScript event loop: a call made by the *)
(* user of the class, the arrival of the response to one request together  *)
(* with every promise callback that response triggers, or the expiry of    *)
(* one timer.  The synchronous code of the class is written as operators   *)
(* on a record `s' holding the fields of the instance and the bookkeeping  *)
(* of the model (requests issued, promises handed out, listeners, timers   *)
(* and the log of observable steps).                                       *)
(***************************************************************************)
EXTENDS Integers, Sequences, FiniteSets, TLC

(***************************************************************************)
(* Bounds of the model.                                                    *)
(***************************************************************************)
\* Spec: a session from its construction on
MaxOps == 2            \* calls made by the user
MaxRequests == 3       \* requests issued on the transport altogether
MaxEpisodes == 1       \* recoveries started
\* SpecRecovery: an authenticated session and one wrapped call
RecRequests == 6       \* after the requests of Init
RecEpisodes == 2
\* SpecConcurrent: an authenticated session and several wrapped calls
ConcCalls == 2
ConcRequests == 5      \* after the requests of Init
ConcEpisodes == 2

(***************************************************************************)
(* JavaScript values.  Strings the code only stores and passes on are TLA+ *)
(* strings; strings the code edits character by character are tuples of    *)
(* one-character strings.                                                  *)
(***************************************************************************)
Null == "null"
Undefined == "undefined"

LowerCase ==
  <<"a","b","c","d","e","f","g","h","i","j","k","l","m",
    "n","o","p","q","r","s","t","u","v","w","x","y","z">>
UpperCase ==
  <<"A","B","C","D","E","F","G","H","I","J","K","L","M",
    "N","O","P","Q","R","S","T","U","V","W","X","Y","Z">>

Range(f) == {f[i] : i \in DOMAIN f}
IndexOf(seq, c) == CHOOSE i \in DOMAIN seq : seq[i] = c
IsLetter(c) == c \in Range(LowerCase) \cup Range(UpperCase)

\* String.prototype.toLowerCase / toUpperCase, one character
ToLowerChar(c) == IF c \in Range(UpperCase) THEN LowerCase[IndexOf(UpperCase, c)] ELSE c
ToUpperChar(c) == IF c \in Range(LowerCase) THEN UpperCase[IndexOf(LowerCase, c)] ELSE c
ToLowerCase(str) == [i \in DOMAIN str |-> ToLowerChar(str[i])]
ToUpperCase(str) == [i \in DOMAIN str |-> ToUpperChar(str[i])]

\* str.replace(/[^a-zA-Z]/g, "")
StripNonLetters(str) == SelectSeq(str, IsLetter)

INVALIDTOKEN == <<"i","n","v","a","l","i","d","t","o","k","e","n">>

\* error && error.detail : a missing or empty detail is falsy
HasDetail(error) == error.hasDetail /\ error.detail # <<>>

NormalizedError(error) == ToLowerCase(StripNonLetters(error.detail))

IsInvalidToken(error) == HasDetail(error) /\ NormalizedError(error) = INVALIDTOKEN


(***************************************************************************)
(* Inputs: what the user of the class passes in, and what the server may   *)
(* answer.                                                                 *)
(***************************************************************************)
NoCredentials == [defined |-> FALSE, username |-> Undefined, password |-> Undefined]
Credentials == [defined |-> TRUE, username |-> "foo", password |-> "bar"]

\* this.options before the first authenticate, and the falsy arguments
NoOptions(js) == [js |-> js, authToken |-> Undefined, credentials |-> NoCredentials]
OptionsObject(tok, cred) == [js |-> "object", authToken |-> tok, credentials |-> cred]
FalsyOptions == {NoOptions(js) : js \in {"undefined", "null", "false", "0", "''"}}
UserToken == "T1"
TruthyOptions ==
  {OptionsObject(tok, cred) : tok \in {Undefined, UserToken},
                              cred \in {NoCredentials, Credentials}}
OptionInputs == FalsyOptions \cup TruthyOptions

\* JavaScript truthiness of the values the code tests
Truthy(v) == v \notin {Undefined, Null, "", "false", "0", "''"}

MfaCodes == {"123456"}

\* the login endpoint hands out a fresh token with every answer, and the
\* accounts endpoint lists the accounts of the token's owner: both are named
\* after the request they answer
ServerTokenNames == <<"S1", "S2", "S3", "S4", "S5", "S6", "S7", "S8", "S9", "S10", "S11", "S12",
                      "S13", "S14", "S15", "S16">>
AccountNames == <<"acct1", "acct2", "acct3", "acct4", "acct5", "acct6", "acct7", "acct8",
                  "acct9", "acct10", "acct11", "acct12", "acct13", "acct14", "acct15",
                  "acct16">>
ServerToken(i) == ServerTokenNames[i]
AccountList(i) == <<AccountNames[i], "acctOther">>

\* error objects the transport rejects with
Error(hasDetail, detail, message) ==
  [hasDetail |-> hasDetail, detail |-> detail, message |-> message]
\* spellings of the detail the server gives for a token it no longer accepts,
\* and details that are near misses
InvalidTokenDetails ==
  { <<"I","n","v","a","l","i","d"," ","t","o","k","e","n",".">>,
    <<"i","N","v","a","L","i","d"," "," "," ","T","o","k","e","n","!","!",",",".">>,
    <<"i","n","v","a","l","i","d","t","o","k","e","n">>,
    <<"1","I","N","V","A","L","I","D","_","T","O","K","E","N","2">> }
OtherDetails ==
  { <<>>,
    <<"f","o","o","b","a","r">>,
    <<"I","n","v","a","l","i","d"," ","t","o","k","e","n","s">>,
    <<"i","n","v","a","l","i","d"," ","t","o","k","e">>,
    <<"N","o","t"," ","f","o","u","n","d",".">> }
InvalidTokenError ==
  Error(TRUE, <<"i","N","v","a","L","i","d"," "," "," ","T","o","k","e","n","!","!",",",".">>,
        Undefined)
OtherErrors ==
  { Error(FALSE, <<>>, "socket hang up"),
    Error(TRUE, <<>>, "empty detail"),
    Error(TRUE, <<"I","n","v","a","l","i","d"," ","t","o","k","e","n","s">>, "Not found") }
TransportErrors == {InvalidTokenError} \cup OtherErrors

\* response bodies; one shape for every endpoint so that they can be compared
Body(token, mfa, results, from) ==
  [token |-> token, mfa_required |-> mfa, mfa_type |-> IF mfa THEN "sms" ELSE Undefined,
   results |-> results, from |-> from]
LoginBodies(i) ==
  { Body(ServerToken(i), FALSE, <<>>, i), Body(Undefined, TRUE, <<>>, i),
    Body(Undefined, FALSE, <<>>, i) }
AccountBodies(i) == {Body(Undefined, FALSE, AccountList(i), i)}
\* any other endpoint: the body names the request it answers
PlainBody(i) == Body(Undefined, FALSE, <<>>, i)
EmptyObject == Body(Undefined, FALSE, <<>>, 0)
NoError == Error(FALSE, <<>>, "")

(***************************************************************************)
(* State.                                                                  *)
(***************************************************************************)
VARIABLES
  options,     \* this.options
  authToken,   \* this.authToken
  account,     \* this.account
  headers,     \* this.headers: the Authorization header, <<>> when absent
  request,     \* this.request: the configuration the transport was built from
  net,         \* every request issued so far, in order, with its state
  calls,       \* the promises returned to the user, in order of the calls
  episodes,    \* the recoveries started by invalidTokenHandler, in order
  nOps,        \* calls made by the user so far
  log          \* the observable steps so far, in order

vars == <<options, authToken, account, headers, request, net, calls, episodes, nOps, log>>

\* the instance and the bookkeeping as one value, for the synchronous code
Cur ==
  [options |-> options, authToken |-> authToken, account |-> account,
   headers |-> headers, request |-> request, net |-> net, calls |-> calls,
   episodes |-> episodes, log |-> log, exc |-> "none"]

Commit(s) ==
  /\ options' = s.options
  /\ authToken' = s.authToken
  /\ account' = s.account
  /\ headers' = s.headers
  /\ request' = s.request
  /\ net' = s.net
  /\ calls' = s.calls
  /\ episodes' = s.episodes
  /\ log' = s.log

LogEntry(s, k, a, b, n, m) ==
  [k |-> k, a |-> a, b |-> b, n |-> n, m |-> m, tok |-> s.authToken, acct |-> s.account]
Logged(s, k, a, b, n, m) == [s EXCEPT !.log = Append(@, LogEntry(s, k, a, b, n, m))]

DEFAULT_HEADERS == <<>>
AuthorizationHeader(tok) == <<"Token", tok>>

\* promise chains a request can belong to
Chain(type, id) == [type |-> type, id |-> id]

(***************************************************************************)
(* Arguments of the wrapped operations.  One record shape for all of them; *)
(* an operation reads only its own fields.                                 *)
(***************************************************************************)
Symbols(isArray, list, str) == [isArray |-> isArray, list |-> list, str |-> str]
NoSymbols == Symbols(FALSE, <<>>, <<>>)
Order(state, cancel, id) == [state |-> state, cancel |-> cancel, id |-> id]
NoOrder == Order(Undefined, Undefined, Undefined)
NoArg ==
  [symbols |-> NoSymbols, symbol |-> <<>>, id |-> Undefined, order |-> NoOrder,
   uri |-> Undefined, method |-> Undefined, updated_at |-> Undefined,
   side |-> Undefined, type |-> Undefined, price |-> Undefined]
Input(op, arg) == [op |-> op, arg |-> arg]
NoInput == Input("none", NoArg)

\* Array.prototype.join(",") on strings held as tuples of characters
RECURSIVE Join(_)
Join(list) ==
  IF list = <<>> THEN <<>>
  ELSE IF Len(list) = 1 THEN list[1]
  ELSE list[1] \o <<",">> \o Join(Tail(list))

TerminalStates == {"filled", "rejected", "canceled", "cancelled", "failed"}

(***************************************************************************)
(* The synchronous code of the class, as operators on the record s.        *)
(***************************************************************************)
\* updateRequestWrapper(): requestPromise.defaults({headers, json, gzip})
UpdateRequestWrapperMutant(s) == s
UpdateRequestWrapper(s) ==
  [s EXCEPT !.request = [headers |-> s.headers, json |-> TRUE, gzip |-> TRUE]]

\* reset()
Reset(s) ==
  Logged(UpdateRequestWrapper(
           [s EXCEPT !.account = Null, !.authToken = Null, !.headers = DEFAULT_HEADERS]),
         "reset", "", "", 0, "")

\* this.emit(event, payload): the payload is an error's type and message, or
\* the mfa_type; n names the recovery a CRITICAL error belongs to
Emit(s, event, type, n, message) == Logged(s, "emit", event, type, n, message)

\* emitError(details, errorType = EVENTS.ERROR)
EmitErrorTwice(s, type, message) ==
  Emit(Emit(s, "ERROR", type, 0, message), "ERROR", type, 0, message)
EmitError(s, type, message) == Emit(s, "ERROR", type, 0, message)
EmitCriticalOnError(s, type, n, message) == Emit(s, "ERROR", type, n, message)
EmitCritical(s, type, n, message) == Emit(s, "CRITICAL", type, n, message)

\* this.request.get / this.request.post: the request leaves with the
\* configuration the transport was built from; chain is the promise chain its
\* answer feeds and replay the call its catch handler would repeat
Issue(s, method, uri, qs, form, chain, replay) ==
  LET r == [method |-> method, uri |-> uri, qs |-> qs, form |-> form,
            config |-> s.request, chain |-> chain, replay |-> replay,
            status |-> "pending", body |-> EmptyObject, error |-> NoError]
      s1 == [s EXCEPT !.net = Append(@, r)]
  IN Logged(s1, "request", uri[1], method, Len(s1.net), "")

\* login(mfaCode?): reading this.options.credentials.password throws a
\* TypeError when there are no options or no credentials
LoginFormMutant(cred, mfaCode) ==
  [password |-> cred.username, username |-> cred.password,
   mfa_code |-> IF Truthy(mfaCode) THEN mfaCode ELSE Undefined]
LoginForm(cred, mfaCode) ==
  [password |-> cred.password, username |-> cred.username,
   mfa_code |-> IF Truthy(mfaCode) THEN mfaCode ELSE Undefined]
Login(s, mfaCode, chain) ==
  IF s.options.js # "object" \/ ~s.options.credentials.defined
  THEN [s EXCEPT !.exc = "TypeError"]
  ELSE Issue(s, "post", <<"LOGIN">>, <<>>, LoginForm(s.options.credentials, mfaCode),
             chain, NoInput)

\* loginWithCredentials(): login().then(...)
LoginWithCredentialsMutant(s) ==
  IF \E i \in DOMAIN s.net : s.net[i].uri[1] = "LOGIN" /\ s.net[i].status = "pending"
  THEN s
  ELSE Login(s, Undefined, Chain("login", 0))
LoginWithCredentials(s) == Login(s, Undefined, Chain("login", 0))

\* getAccounts(), also the body of setAccount()
GetAccounts(s, chain) ==
  Issue(s, "get", <<"ACCOUNTS">>, <<>>, <<>>, chain, Input("getAccounts", NoArg))

\* setAccount(): getAccounts().then(...); the chain is named after the request
SetAccount(s) == GetAccounts(s, Chain("setAccount", Len(s.net) + 1))

\* Object.assign({ Authorization }, this.headers): a header already in
\* this.headers wins
AssignHeaders(tok, hdrs) == IF hdrs # <<>> THEN hdrs ELSE AuthorizationHeader(tok)

\* setAuthToken(authToken)
SetAuthTokenMutant(s, tok) ==
  LET s1 == Reset(s)
      s2 == [s1 EXCEPT !.headers = AssignHeaders(tok, s1.headers)]
      s3 == Logged(UpdateRequestWrapper(s2), "adopt", tok, "", 0, "")
  IN SetAccount(s3)
SetAuthToken(s, tok) ==
  LET s1 == Reset(s)
      s2 == [s1 EXCEPT !.authToken = tok, !.headers = AssignHeaders(tok, s1.headers)]
      s3 == Logged(UpdateRequestWrapper(s2), "adopt", tok, "", 0, "")
  IN SetAccount(s3)

(***************************************************************************)
(* Promises returned to the user.                                          *)
(***************************************************************************)
\* the TypeError raised by reading a property of undefined or null
TypeError == Error(FALSE, <<>>, "TypeError")
NoAuthTokenError == Error(FALSE, <<>>, "NO_AUTH_TOKEN")

Promise(inp, state, value, error) ==
  [inp |-> inp, state |-> state, value |-> value, error |-> error]

\* the promise of call c settles
SettleCallerStoresAccount(s, c, state, value, error) ==
  LET s1 == Logged([s EXCEPT !.calls[c].state = state, !.calls[c].value = value,
                             !.calls[c].error = error],
                   "settle", state, "", c, error.message)
  IN IF state = "resolved" /\ value.results # <<>>
     THEN [s1 EXCEPT !.account = Head(value.results)]
     ELSE s1
SettleCaller(s, c, state, value, error) ==
  Logged([s EXCEPT !.calls[c].state = state, !.calls[c].value = value,
                   !.calls[c].error = error],
         "settle", state, "", c, error.message)

(***************************************************************************)
(* The wrapped operations: each issues one request whose catch handler     *)
(* passes the error to invalidTokenHandler together with a closure that    *)
(* calls the operation again.  `chain' is the promise the outcome settles. *)
(***************************************************************************)
\* getQuote(symbols)
GetQuoteSymbolsMutant(symbols) ==
  IF symbols.isArray
  THEN IF symbols.list = <<>> THEN <<>> ELSE symbols.list[1]
  ELSE symbols.str
GetQuoteSymbols(symbols) == IF symbols.isArray THEN Join(symbols.list) ELSE symbols.str
GetQuote(s, chain, arg) ==
  LET symbols == GetQuoteSymbols(arg.symbols)
  IN Issue(s, "get", <<"QUOTES">>, [symbols |-> ToUpperCase(symbols)], <<>>, chain,
           Input("getQuote", [arg EXCEPT !.symbols = Symbols(FALSE, <<>>, symbols)]))

\* getInstrument(instrumentId)
GetInstrument(s, chain, arg) ==
  Issue(s, "get", <<"INSTRUMENT", arg.id>>, <<>>, <<>>, chain, Input("getInstrument", arg))

\* getInstrumentBySymbol(symbol)
GetInstrumentBySymbol(s, chain, arg) ==
  LET symbol == ToUpperCase(arg.symbol)
  IN Issue(s, "get", <<"INSTRUMENTS">>, [symbol |-> symbol], <<>>, chain,
           Input("getInstrumentBySymbol", [arg EXCEPT !.symbol = symbol]))

\* getOrders(optionsArg)
GetOrders(s, chain, arg) ==
  Issue(s, "get", <<"ORDERS">>,
        IF Truthy(arg.updated_at) THEN [updated_at_gte |-> arg.updated_at] ELSE <<>>,
        <<>>, chain, Input("getOrders", arg))

\* getOrder(orderId)
GetOrder(s, chain, arg) ==
  Issue(s, "get", <<"ORDER", arg.id>>, <<>>, <<>>, chain, Input("getOrder", arg))

\* cancelOrder(order)
CancelUriMutant(order) ==
  IF Truthy(order.id) THEN <<"CANCEL_ORDER", order.id>>
  ELSE IF Truthy(order.cancel) THEN <<order.cancel>>
  ELSE <<Undefined>>
CancelUri(order) ==
  IF Truthy(order.cancel) THEN <<order.cancel>>
  ELSE IF Truthy(order.id) THEN <<"CANCEL_ORDER", order.id>>
  ELSE <<Undefined>>
CancelOrder(s, chain, arg) ==
  IF arg.order.state \in TerminalStates
  THEN IF chain.type = "caller"
       THEN SettleCaller(s, chain.id, "resolved", EmptyObject, NoError)
       ELSE s
  ELSE Issue(s, "post", CancelUri(arg.order), <<>>, <<>>, chain, Input("cancelOrder", arg))

\* getFundamentals(symbol)
GetFundamentals(s, chain, arg) ==
  LET symbol == ToUpperCase(arg.symbol)
  IN Issue(s, "get", <<"FUNDAMENTALS", symbol>>, <<>>, <<>>, chain,
           Input("getFundamentals", [arg EXCEPT !.symbol = symbol]))

\* requestURI(uri, method = "get"): the closure repeats requestURI(uri)
RequestURI(s, chain, arg) ==
  Issue(s, IF arg.method = Undefined THEN "get" ELSE arg.method, <<arg.uri>>, <<>>, <<>>,
        chain, Input("requestURI", [arg EXCEPT !.method = Undefined]))

\* placeOrder(options): reading this.account.url throws when there is no account
OrderForm(acct, arg) ==
  [account |-> acct,
   instrument |-> arg.id,
   time_in_force |-> "gfd",
   type |-> IF Truthy(arg.type) THEN arg.type ELSE "market",
   trigger |-> "immediate",
   side |-> arg.side,
   price |-> IF Truthy(arg.price) THEN arg.price ELSE Null,
   stop_price |-> Null,
   extended_hours |-> FALSE,
   symbol |-> ToUpperCase(arg.symbol)]
PlaceOrder(s, chain, arg) ==
  IF s.account \in {Null, Undefined}
  THEN [s EXCEPT !.exc = "TypeError"]
  ELSE Issue(s, "post", <<"ORDERS">>, <<>>, OrderForm(s.account, arg), chain,
             Input("placeOrder", arg))

\* placeBuyOrder(order) / placeSellOrder(order)
PlaceBuyOrder(s, chain, arg) == PlaceOrder(s, chain, [arg EXCEPT !.side = "buy"])
PlaceSellOrder(s, chain, arg) == PlaceOrder(s, chain, [arg EXCEPT !.side = "sell"])

\* a call of the operation inp.op with the arguments inp.arg
Invoke(s, chain, inp) ==
  CASE inp.op = "getQuote" -> GetQuote(s, chain, inp.arg)
    [] inp.op = "getInstrument" -> GetInstrument(s, chain, inp.arg)
    [] inp.op = "getInstrumentBySymbol" -> GetInstrumentBySymbol(s, chain, inp.arg)
    [] inp.op = "getOrders" -> GetOrders(s, chain, inp.arg)
    [] inp.op = "getOrder" -> GetOrder(s, chain, inp.arg)
    [] inp.op = "cancelOrder" -> CancelOrder(s, chain, inp.arg)
    [] inp.op = "getAccounts" -> GetAccounts(s, chain)
    [] inp.op = "getFundamentals" -> GetFundamentals(s, chain, inp.arg)
    [] inp.op = "requestURI" -> RequestURI(s, chain, inp.arg)
    [] inp.op = "placeOrder" -> PlaceOrder(s, chain, inp.arg)
    [] inp.op = "placeBuyOrder" -> PlaceBuyOrder(s, chain, inp.arg)
    [] inp.op = "placeSellOrder" -> PlaceSellOrder(s, chain, inp.arg)

(***************************************************************************)
(* Events and recovery.                                                    *)
(***************************************************************************)
Episode(chain, replay, timer, listening) ==
  [chain |-> chain, replay |-> replay, timer |-> timer, listening |-> listening]

\* the recoveries whose once(AUTHENTICATED) listener is registered, oldest first
Listeners(s) == SelectSeq([e \in DOMAIN s.episodes |-> e], LAMBDA e : s.episodes[e].listening)

\* the listener of recovery e: clearTimeout(timeout); resolve(onSuccess())
OnAuthenticatedKeepsTimer(s, e) ==
  Invoke([s EXCEPT !.episodes[e].listening = FALSE], s.episodes[e].chain, s.episodes[e].replay)
OnAuthenticated(s, e) ==
  LET s1 == [s EXCEPT !.episodes[e].listening = FALSE,
                      !.episodes[e].timer = IF @ = "armed" THEN "cleared" ELSE @]
  IN Invoke(s1, s.episodes[e].chain, s.episodes[e].replay)

\* emit(AUTHENTICATED) calls the listeners registered when it starts, in
\* order of registration; an exception thrown by one ends the emit
RECURSIVE CallListeners(_, _)
CallListeners(s, ls) ==
  IF ls = <<>> \/ s.exc # "none" THEN s
  ELSE CallListeners(OnAuthenticated(s, Head(ls)), Tail(ls))

\* the constructor's listener: ACCOUNT_SETUP is emitted again as AUTHENTICATED
EmitAccountSetup(s) ==
  LET s1 == Emit(s, "ACCOUNT_SETUP", "", 0, "")
      s2 == Emit(s1, "AUTHENTICATED", "", 0, "")
      s3 == CallListeners(s2, Listeners(s2))
  IN [s3 EXCEPT !.exc = "none"]

\* the two callbacks of setAccount(): getAccounts().then(ok, failed)
FirstResult(body) == IF body.results = <<>> THEN Undefined ELSE body.results[1]
SetAccountResolved(s, body) == EmitAccountSetup([s EXCEPT !.account = FirstResult(body)])
SetAccountRejectedMutant(s, error) ==
  EmitAccountSetup(EmitError(s, "SETTING_ACCOUNT", error.message))
SetAccountRejectedResets(s, error) ==
  Reset(EmitError(s, "SETTING_ACCOUNT", error.message))
SetAccountRejected(s, error) == EmitError(s, "SETTING_ACCOUNT", error.message)

\* the promise a wrapped request feeds is settled
SettleStoresAccounts(s, chain, state, value, error) ==
  CASE chain.type = "caller" ->
         IF state = "resolved" /\ value.results # <<>>
         THEN SetAccountResolved(SettleCaller(s, chain.id, state, value, error), value)
         ELSE SettleCaller(s, chain.id, state, value, error)
    [] chain.type = "setAccount" ->
         IF state = "resolved" THEN SetAccountResolved(s, value)
         ELSE SetAccountRejected(s, error)
Settle(s, chain, state, value, error) ==
  CASE chain.type = "caller" -> SettleCaller(s, chain.id, state, value, error)
    [] chain.type = "setAccount" ->
         IF state = "resolved" THEN SetAccountResolved(s, value)
         ELSE SetAccountRejected(s, error)

\* invalidTokenHandler(error, onSuccess), the part run for an invalid token:
\* arm the timer, reset(), loginWithCredentials(), once(AUTHENTICATED, ...).
\* An exception thrown by login() rejects the promise before the listener is
\* registered.
RecoverMutant(s, chain, replay) ==
  LET e == Len(s.episodes) + 1
      s1 == Logged([s EXCEPT !.episodes = Append(@, Episode(chain, replay, "armed", FALSE))],
                   "recover", "", "", e, "")
      s2 == LoginWithCredentials(s1)
  IN IF s2.exc # "none"
     THEN Settle([s2 EXCEPT !.exc = "none"], chain, "rejected", EmptyObject, TypeError)
     ELSE [s2 EXCEPT !.episodes[e].listening = TRUE]
RecoverWithToken(s, chain, replay) ==
  LET e == Len(s.episodes) + 1
      s1 == Logged([s EXCEPT !.episodes = Append(@, Episode(chain, replay, "armed", FALSE))],
                   "recover", "", "", e, "")
      s2 == IF Truthy(s1.options.authToken)
            THEN SetAuthToken(Reset(s1), s1.options.authToken)
            ELSE LoginWithCredentials(Reset(s1))
  IN IF s2.exc # "none"
     THEN Settle([s2 EXCEPT !.exc = "none"], chain, "rejected", EmptyObject, TypeError)
     ELSE [s2 EXCEPT !.episodes[e].listening = TRUE]
RecoverReplaysFirst(s, chain, replay) ==
  LET e == Len(s.episodes) + 1
      s1 == Logged([s EXCEPT !.episodes = Append(@, Episode(chain, replay, "armed", FALSE))],
                   "recover", "", "", e, "")
      s2 == LoginWithCredentials(Reset(Invoke(s1, chain, replay)))
  IN IF s2.exc # "none"
     THEN Settle([s2 EXCEPT !.exc = "none"], chain, "rejected", EmptyObject, TypeError)
     ELSE [s2 EXCEPT !.episodes[e].listening = TRUE]
RecoverDisarmsOnThrow(s, chain, replay) ==
  LET e == Len(s.episodes) + 1
      s1 == Logged([s EXCEPT !.episodes = Append(@, Episode(chain, replay, "armed", FALSE))],
                   "recover", "", "", e, "")
      s2 == LoginWithCredentials(Reset(s1))
  IN IF s2.exc # "none"
     THEN Settle([s2 EXCEPT !.exc = "none", !.episodes[e].timer = "cleared"],
                 chain, "rejected", EmptyObject, TypeError)
     ELSE [s2 EXCEPT !.episodes[e].listening = TRUE]
Recover(s, chain, replay) ==
  LET e == Len(s.episodes) + 1
      s1 == Logged([s EXCEPT !.episodes = Append(@, Episode(chain, replay, "armed", FALSE))],
                   "recover", "", "", e, "")
      s2 == LoginWithCredentials(Reset(s1))
  IN IF s2.exc # "none"
     THEN Settle([s2 EXCEPT !.exc = "none"], chain, "rejected", EmptyObject, TypeError)
     ELSE [s2 EXCEPT !.episodes[e].listening = TRUE]

\* invalidTokenHandler(error, onSuccess)
InvalidTokenHandlerMutant(s, error, chain, replay) ==
  IF HasDetail(error)
  THEN Recover(s, chain, replay)
  ELSE Settle(s, chain, "rejected", EmptyObject, error)
InvalidTokenHandlerCallersOnly(s, error, chain, replay) ==
  IF IsInvalidToken(error) /\ chain.type = "caller"
  THEN Recover(s, chain, replay)
  ELSE Settle(s, chain, "rejected", EmptyObject, error)
InvalidTokenHandlerOnce(s, error, chain, replay) ==
  IF IsInvalidToken(error) /\ \A e \in DOMAIN s.episodes : s.episodes[e].chain # chain
  THEN Recover(s, chain, replay)
  ELSE Settle(s, chain, "rejected", EmptyObject, error)
InvalidTokenHandler(s, error, chain, replay) ==
  IF IsInvalidToken(error)
  THEN Recover(s, chain, replay)
  ELSE Settle(s, chain, "rejected", EmptyObject, error)

\* the callbacks of loginWithCredentials(): login().then(ok, failed)
LoginResolvedMutant(s, body) ==
  IF Truthy(body.token) THEN SetAuthToken(s, body.token)
  ELSE IF body.mfa_required THEN Emit(Reset(s), "MFA_REQUESTED", body.mfa_type, 0, "")
  ELSE EmitError(s, "UNHANDLED", "Authentication body response is invalid")
LoginResolved(s, body) ==
  IF Truthy(body.token) THEN SetAuthToken(s, body.token)
  ELSE IF body.mfa_required THEN Emit(s, "MFA_REQUESTED", body.mfa_type, 0, "")
  ELSE EmitError(s, "UNHANDLED", "Authentication body response is invalid")
LoginRejectedMutant(s, error) == EmitError(s, "AUTHENTICATION", "Unable to log in")
LoginRejected(s, error) == EmitError(s, "AUTHENTICATION", error.message)

\* the callbacks of loginWithMFA(mfaCode): login(mfaCode).then(ok, failed)
MfaResolvedMutant(s, body) == LoginResolved(s, body)
MfaResolved(s, body) ==
  IF Truthy(body.token) THEN SetAuthToken(s, body.token)
  ELSE EmitError(s, "UNHANDLED", "No token when authenticating using MFA")
MfaRejected(s, error) == EmitError(s, "AUTHENTICATION_MFA", error.message)

\* the callback of expireToken(): post(LOGOUT).then(response => reset())
LogoutResolvedMutant(s, c, body) == SettleCaller(s, c, "resolved", body, NoError)
LogoutResolved(s, c, body) == SettleCaller(Reset(s), c, "resolved", body, NoError)
LogoutRejectedRecovers(s, c, error) ==
  InvalidTokenHandler(s, error, Chain("caller", c), NoInput)
LogoutRejected(s, c, error) == SettleCaller(s, c, "rejected", EmptyObject, error)

\* the answer to request i arrives: resolved with body, or rejected with error
Answered(s, i, status, body, error) ==
  [s EXCEPT !.net[i].status = status, !.net[i].body = body, !.net[i].error = error]
OnResolved(s, i, body) ==
  LET r == s.net[i]
      s1 == Answered(s, i, "resolved", body, NoError)
  IN CASE r.chain.type = "login" -> LoginResolved(s1, body)
       [] r.chain.type = "mfa" -> MfaResolved(s1, body)
       [] r.chain.type = "logout" -> LogoutResolved(s1, r.chain.id, body)
       [] OTHER -> Settle(s1, r.chain, "resolved", body, NoError)
OnRejected(s, i, error) ==
  LET r == s.net[i]
      s1 == Answered(s, i, "rejected", EmptyObject, error)
  IN CASE r.chain.type = "login" -> LoginRejected(s1, error)
       [] r.chain.type = "mfa" -> MfaRejected(s1, error)
       [] r.chain.type = "logout" -> LogoutRejected(s1, r.chain.id, error)
       [] OTHER -> InvalidTokenHandler(s1, error, r.chain, r.replay)

(***************************************************************************)
(* What the user may call and what the server may answer.                  *)
(***************************************************************************)
FB == <<"f","b">>
AAPL == <<"A","a","P","l">>
QuoteInputs ==
  { Input("getQuote", [NoArg EXCEPT !.symbols = Symbols(FALSE, <<>>, FB)]),
    Input("getQuote", [NoArg EXCEPT !.symbols = Symbols(TRUE, <<FB, AAPL>>, <<>>)]) }
CancelInputs ==
  { Input("cancelOrder", [NoArg EXCEPT !.order = Order("filled", "cancelUrl", "o1")]),
    Input("cancelOrder", [NoArg EXCEPT !.order = Order("confirmed", "cancelUrl", "o1")]),
    Input("cancelOrder", [NoArg EXCEPT !.order = Order("confirmed", Undefined, "o1")]) }
OrderInputs ==
  { Input(op, [NoArg EXCEPT !.id = "instrumentUrl", !.symbol = FB, !.price = "23.68"])
      : op \in {"placeBuyOrder", "placeSellOrder"} }
RequestURIInputs ==
  { Input("requestURI", [NoArg EXCEPT !.uri = "someUrl", !.method = m])
      : m \in {Undefined, "get", "post"} }
OtherInputs ==
  { Input("getInstrument", [NoArg EXCEPT !.id = "i1"]),
    Input("getInstrumentBySymbol", [NoArg EXCEPT !.symbol = FB]),
    Input("getOrders", NoArg),
    Input("getOrders", [NoArg EXCEPT !.updated_at = "2017-09-27"]),
    Input("getOrder", [NoArg EXCEPT !.id = "o1"]),
    Input("getAccounts", NoArg),
    Input("getFundamentals", [NoArg EXCEPT !.symbol = FB]) }
\* every wrapped operation
CallInputs == QuoteInputs \cup CancelInputs \cup OrderInputs \cup RequestURIInputs \cup OtherInputs
\* the two the scenarios with several steps of the user are run with
FewInputs ==
  { Input("getQuote", [NoArg EXCEPT !.symbols = Symbols(FALSE, <<>>, FB)]),
    Input("getAccounts", NoArg) }

LoginErrors == {Error(FALSE, <<>>, "Unable to log in"), InvalidTokenError}

ResolveBodies(s, i) ==
  CASE s.net[i].uri[1] = "LOGIN" -> LoginBodies(i)
    [] s.net[i].uri[1] = "ACCOUNTS" -> AccountBodies(i)
    [] OTHER -> {PlainBody(i)}
RejectErrors(s, i, errors) ==
  CASE s.net[i].uri[1] = "LOGIN" -> LoginErrors
    [] OTHER -> errors
\* one error of each kind, for the scenarios with several steps of the user
FewErrors == {InvalidTokenError, Error(FALSE, <<>>, "socket hang up")}

Pending(s) == {i \in DOMAIN s.net : s.net[i].status = "pending"}

\* the bounds of a specification
Bounds(ops, requests, eps) == [ops |-> ops, requests |-> requests, episodes |-> eps]
Bounded(B, s) == Len(s.net) <= B.requests /\ Len(s.episodes) <= B.episodes

(***************************************************************************)
(* The calls of the user, as operators on s.                               *)
(***************************************************************************)
\* the state the constructor leaves (it ends with reset())
Constructed ==
  [options |-> NoOptions(Undefined), authToken |-> Null, account |-> Null,
   headers |-> DEFAULT_HEADERS,
   request |-> [headers |-> DEFAULT_HEADERS, json |-> TRUE, gzip |-> TRUE],
   net |-> <<>>, calls |-> <<>>, episodes |-> <<>>,
   log |-> << [k |-> "reset", a |-> "", b |-> "", n |-> 0, m |-> "",
               tok |-> Null, acct |-> Null] >>,
   exc |-> "none"]

\* the user calls a method of the instance; c names the promise it returns
Called(s, op, c) == Logged(s, "call", op, "", c, "")

\* an exception leaves the call: what was done before it stays done
Thrown(s, what, by) == Logged([s EXCEPT !.exc = "none"], "throw", what, by, 0, "")

\* authenticate(options)
AuthenticateBodyMutant(s, o) ==
  IF o.js = Undefined
  THEN Thrown(Called(s, "authenticate", 0), "INVALID_ROBINHOOD_CONFIGURATION", "authenticate")
  ELSE LET s1 == [Called(s, "authenticate", 0) EXCEPT !.options = o]
           s2 == IF Truthy(s1.options.authToken)
                 THEN SetAuthToken(s1, s1.options.authToken)
                 ELSE LoginWithCredentials(s1)
       IN IF s2.exc # "none" THEN Thrown(s2, "TypeError", "authenticate") ELSE s2
AuthenticateBodyCredentialsFirst(s, o) ==
  IF ~Truthy(o.js)
  THEN Thrown(Called(s, "authenticate", 0), "INVALID_ROBINHOOD_CONFIGURATION", "authenticate")
  ELSE LET s1 == [Called(s, "authenticate", 0) EXCEPT !.options = o]
           s2 == IF s1.options.credentials.defined
                 THEN LoginWithCredentials(s1)
                 ELSE SetAuthToken(s1, s1.options.authToken)
       IN IF s2.exc # "none" THEN Thrown(s2, "TypeError", "authenticate") ELSE s2
AuthenticateBody(s, o) ==
  IF ~Truthy(o.js)
  THEN Thrown(Called(s, "authenticate", 0), "INVALID_ROBINHOOD_CONFIGURATION", "authenticate")
  ELSE LET s1 == [Called(s, "authenticate", 0) EXCEPT !.options = o]
           s2 == IF Truthy(s1.options.authToken)
                 THEN SetAuthToken(s1, s1.options.authToken)
                 ELSE LoginWithCredentials(s1)
       IN IF s2.exc # "none" THEN Thrown(s2, "TypeError", "authenticate") ELSE s2

\* loginWithMFA(mfaCode)
LoginWithMFABodyMutant(s, code) ==
  LET s1 == Login(Called(s, "loginWithMFA", 0), Undefined, Chain("mfa", 0))
  IN IF s1.exc # "none" THEN Thrown(s1, "TypeError", "loginWithMFA") ELSE s1
LoginWithMFABody(s, code) ==
  LET s1 == Login(Called(s, "loginWithMFA", 0), code, Chain("mfa", 0))
  IN IF s1.exc # "none" THEN Thrown(s1, "TypeError", "loginWithMFA") ELSE s1

\* expireToken()
ExpireTokenBodyMutant(s) ==
  LET c == Len(s.calls) + 1
      s1 == [Called(s, "expireToken", c) EXCEPT
               !.calls = Append(@, Promise(Input("expireToken", NoArg), "pending",
                                           EmptyObject, NoError))]
  IN Issue(s1, "post", <<"LOGOUT">>, <<>>, [resolveWithFullResponse |-> TRUE],
           Chain("logout", c), NoInput)
ExpireTokenBody(s) ==
  LET c == Len(s.calls) + 1
      s1 == [Called(s, "expireToken", c) EXCEPT
               !.calls = Append(@, Promise(Input("expireToken", NoArg), "pending",
                                           EmptyObject, NoError))]
  IN IF ~Truthy(s.authToken)
     THEN SettleCaller(s1, c, "rejected", EmptyObject, NoAuthTokenError)
     ELSE Issue(s1, "post", <<"LOGOUT">>, <<>>, [resolveWithFullResponse |-> TRUE],
                Chain("logout", c), NoInput)

\* a wrapped operation is called by the user
CallBody(s, inp) ==
  LET c == Len(s.calls) + 1
      s1 == [Called(s, inp.op, c) EXCEPT
               !.calls = Append(@, Promise(inp, "pending", EmptyObject, NoError))]
      s2 == Invoke(s1, Chain("caller", c), inp)
  IN IF s2.exc # "none"
     THEN Thrown([s2 EXCEPT !.calls[c].state = "threw"], "TypeError", inp.op)
     ELSE s2

\* the timer of recovery e expires, REVALIDATE_TOKEN_TIMEOUT after it was armed
TimeoutBodyMutant(s, e) ==
  Settle(EmitCritical([s EXCEPT !.episodes[e].timer = "fired"], "UNABLE_TO_AUTHENTICATE", e,
                      "Invalid token and unable to authenticate"),
         s.episodes[e].chain, "rejected", EmptyObject, TypeError)
TimeoutBodyEndsEpisode(s, e) ==
  EmitCritical([s EXCEPT !.episodes[e].timer = "fired", !.episodes[e].listening = FALSE],
               "UNABLE_TO_AUTHENTICATE", e, "Invalid token and unable to authenticate")
TimeoutBody(s, e) ==
  EmitCritical([s EXCEPT !.episodes[e].timer = "fired"], "UNABLE_TO_AUTHENTICATE", e,
               "Invalid token and unable to authenticate")

(***************************************************************************)
(* Init.                                                                   *)
(***************************************************************************)
\* the variables hold the instance s
Holds(s) ==
  /\ options = s.options
  /\ authToken = s.authToken
  /\ account = s.account
  /\ headers = s.headers
  /\ request = s.request
  /\ net = s.net
  /\ calls = s.calls
  /\ episodes = s.episodes
  /\ log = s.log

Init == Holds(Constructed) /\ nOps = 0

(***************************************************************************)
(* Actions.                                                                *)
(***************************************************************************)
Authenticate(B, o) ==
  /\ nOps < B.ops
  /\ LET s == AuthenticateBody(Cur, o)
     IN Bounded(B, s) /\ Commit(s)
  /\ nOps' = nOps + 1

LoginWithMFA(B, code) ==
  /\ nOps < B.ops
  /\ LET s == LoginWithMFABody(Cur, code)
     IN Bounded(B, s) /\ Commit(s)
  /\ nOps' = nOps + 1

ExpireToken(B) ==
  /\ nOps < B.ops
  /\ LET s == ExpireTokenBody(Cur)
     IN Bounded(B, s) /\ Commit(s)
  /\ nOps' = nOps + 1

Call(B, inp) ==
  /\ nOps < B.ops
  /\ LET s == CallBody(Cur, inp)
     IN Bounded(B, s) /\ Commit(s)
  /\ nOps' = nOps + 1

\* the server answers request i with a 2xx and a body
Resolve(B, i, body) ==
  /\ i \in Pending(Cur)
  /\ LET s == OnResolved(Cur, i, body)
     IN Bounded(B, s) /\ Commit(s)
  /\ UNCHANGED nOps

\* request i fails
Reject(B, i, error) ==
  /\ i \in Pending(Cur)
  /\ LET s == OnRejected(Cur, i, error)
     IN Bounded(B, s) /\ Commit(s)
  /\ UNCHANGED nOps

\* timers of one delay expire in the order they were armed
Timeout(e) ==
  /\ e \in DOMAIN episodes
  /\ episodes[e].timer = "armed"
  /\ \A d \in 1..(e - 1) : episodes[d].timer # "armed"
  /\ Commit(TimeoutBody(Cur, e))
  /\ UNCHANGED nOps

ServerStep(B, errors) ==
  \/ \E i \in DOMAIN net : \E body \in ResolveBodies(Cur, i) : Resolve(B, i, body)
  \/ \E i \in DOMAIN net : \E error \in RejectErrors(Cur, i, errors) : Reject(B, i, error)
  \/ \E e \in DOMAIN episodes : Timeout(e)

SpecBounds == Bounds(MaxOps, MaxRequests, MaxEpisodes)
Next ==
  \/ \E o \in OptionInputs : Authenticate(SpecBounds, o)
  \/ \E code \in MfaCodes : LoginWithMFA(SpecBounds, code)
  \/ ExpireToken(SpecBounds)
  \/ \E inp \in FewInputs : Call(SpecBounds, inp)
  \/ ServerStep(SpecBounds, FewErrors)

Spec == Init /\ [][Next]_vars

(***************************************************************************)
(* SpecRecovery: the session is authenticated (with a token and            *)
(* credentials, or with credentials alone) before the first wrapped call.  *)
(***************************************************************************)
AuthenticatedWith(o) ==
  LET s1 == AuthenticateBody(Constructed, o)
      s2 == IF Truthy(o.authToken) THEN s1
            ELSE OnResolved(s1, Len(s1.net), Body(ServerToken(Len(s1.net)), FALSE, <<>>, 0))
  IN OnResolved(s2, Len(s2.net), Body(Undefined, FALSE, AccountList(Len(s2.net)), 0))

InitRecovery ==
  /\ \E o \in {OptionsObject(UserToken, Credentials), OptionsObject(Undefined, Credentials)} :
       Holds(AuthenticatedWith(o))
  /\ nOps = 0

\* one call; RecRequests requests after those of Init
RecoveryBounds == Bounds(1, 2 + RecRequests, RecEpisodes)
NextRecovery ==
  \/ \E inp \in CallInputs : Call(RecoveryBounds, inp)
  \/ ServerStep(RecoveryBounds, TransportErrors)

SpecRecovery == InitRecovery /\ [][NextRecovery]_vars

(***************************************************************************)
(* SpecConcurrent: the session is authenticated with credentials and the   *)
(* user makes several wrapped calls, whose requests are in flight          *)
(* together.                                                               *)
(***************************************************************************)
InitConcurrent ==
  /\ Holds(AuthenticatedWith(OptionsObject(Undefined, Credentials)))
  /\ nOps = 0

ConcurrentBounds == Bounds(ConcCalls, 2 + ConcRequests, ConcEpisodes)
NextConcurrent ==
  \/ \E inp \in FewInputs : Call(ConcurrentBounds, inp)
  \/ ServerStep(ConcurrentBounds, FewErrors)

SpecConcurrent == InitConcurrent /\ [][NextConcurrent]_vars

(***************************************************************************)
(* SpecParallel: the session is authenticated with credentials and the     *)
(* user places an order and asks for a quote, in either order or twice the *)
(* same; enough requests for both to fail, be recovered and replayed.  The *)
(* account list the server answers with may be empty.                      *)
(***************************************************************************)
ParCalls == 2
ParRequests == 7
ParEpisodes == 2

ParallelInputs ==
  { Input("placeBuyOrder", [NoArg EXCEPT !.id = "instrumentUrl", !.symbol = FB, !.price = "23.68"]),
    Input("getQuote", [NoArg EXCEPT !.symbols = Symbols(FALSE, <<>>, FB)]) }
\* a 2xx answer to the account request i whose results are the empty list
NoAccounts(i) == Body(Undefined, FALSE, <<>>, i)

InitParallel ==
  /\ Holds(AuthenticatedWith(OptionsObject(Undefined, Credentials)))
  /\ nOps = 0

ParallelBounds == Bounds(ParCalls, 2 + ParRequests, ParEpisodes)
NextParallel ==
  \/ \E inp \in ParallelInputs : Call(ParallelBounds, inp)
  \/ ServerStep(ParallelBounds, {InvalidTokenError})
  \/ \E i \in DOMAIN net :
       net[i].uri[1] = "ACCOUNTS" /\ Resolve(ParallelBounds, i, NoAccounts(i))

SpecParallel == InitParallel /\ [][NextParallel]_vars

(***************************************************************************)
(* SpecHostile: the session is authenticated and the user makes one        *)
(* wrapped call; the server accepts every login and every account fetch    *)
(* and rejects every other request with an invalid token.                  *)
(***************************************************************************)
HostRequests == 10
HostEpisodes == 3

\* the calls that issue a request other than an account fetch
HostileInputs ==
  {inp \in CallInputs : inp.op # "getAccounts"
                         /\ ~(inp.op = "cancelOrder" /\ inp.arg.order.state \in TerminalStates)}

HostileBounds == Bounds(1, 2 + HostRequests, HostEpisodes)
HostileAnswer(i) ==
  CASE net[i].uri[1] = "LOGIN" -> Resolve(HostileBounds, i, Body(ServerToken(i), FALSE, <<>>, i))
    [] net[i].uri[1] = "ACCOUNTS" ->
         Resolve(HostileBounds, i, Body(Undefined, FALSE, AccountList(i), i))
    [] OTHER -> Reject(HostileBounds, i, InvalidTokenError)
NextHostile ==
  \/ \E inp \in HostileInputs : Call(HostileBounds, inp)
  \/ \E i \in DOMAIN net : HostileAnswer(i)
  \/ \E e \in DOMAIN episodes : Timeout(e)

SpecHostile == InitRecovery /\ [][NextHostile]_vars

(***************************************************************************)
(* SpecMfa: the session is authenticated, the user makes one wrapped call  *)
(* and may call loginWithMFA; enough requests for a recovery whose login   *)
(* asks for a second factor.                                               *)
(***************************************************************************)
MfaOps == 2
MfaRequests == 5

MfaBounds == Bounds(MfaOps, 2 + MfaRequests, 1)
NextMfa ==
  \/ \E inp \in CallInputs : nOps = 0 /\ Call(MfaBounds, inp)
  \/ \E code \in MfaCodes : LoginWithMFA(MfaBounds, code)
  \/ ServerStep(MfaBounds, FewErrors)

SpecMfa == InitRecovery /\ [][NextMfa]_vars

(***************************************************************************)
(* SpecBootstrap: the one call of the user is authenticate; enough         *)
(* requests for the account fetch of the adoption to fail, be recovered    *)
(* and be replayed.                                                        *)
(***************************************************************************)
BootRequests == 5

BootstrapBounds == Bounds(1, BootRequests, 1)
NextBootstrap ==
  \/ \E o \in TruthyOptions : Authenticate(BootstrapBounds, o)
  \/ ServerStep(BootstrapBounds, TransportErrors)

SpecBootstrap == Init /\ [][NextBootstrap]_vars

(***************************************************************************)
(* Reading the log.                                                        *)
(***************************************************************************)
IsEmit(i, event) == log[i].k = "emit" /\ log[i].a = event
IsRequest(i, endpoint) == log[i].k = "request" /\ log[i].a = endpoint
Emitted(event) == {i \in DOMAIN log : IsEmit(i, event)}
\* where recovery e starts in the log, and where request i leaves
RecoverAt(e) == CHOOSE p \in DOMAIN log : log[p].k = "recover" /\ log[p].n = e
RequestAt(i) == CHOOSE p \in DOMAIN log : log[p].k = "request" /\ log[p].n = i
SettleAt(c) == CHOOSE p \in DOMAIN log : log[p].k = "settle" /\ log[p].n = c
Since(p) == {q \in DOMAIN log : q >= p}
Max(S) == CHOOSE x \in S : \A y \in S : y <= x

\* the recoveries started for a promise of the user
CallerEpisodes == {e \in DOMAIN episodes : episodes[e].chain.type = "caller"}
\* the requests of a promise chain; the one whose rejection started recovery e
RequestsOf(chain) == {i \in DOMAIN net : net[i].chain = chain}
OriginOf(e) ==
  Max({i \in RequestsOf(episodes[e].chain) : RequestAt(i) < RecoverAt(e)})
\* the login request recovery e issues: the entry after its reset
LoginOf(e) == log[RecoverAt(e) + 2].n

SameRequest(a, b) == a.method = b.method /\ a.uri = b.uri /\ a.qs = b.qs

(***************************************************************************)
(* C1  A single wrapped call of an authenticated session with credentials  *)
(* is rejected with an invalid token, and the login and the account fetch  *)
(* of the recovery succeed before the timer expires: the steps are reset,  *)
(* one login with the stored credentials, adoption of the new token, one   *)
(* account fetch, AUTHENTICATED, one replay of the call; the promise       *)
(* resolves with the replay's body; no ERROR and no CRITICAL is emitted.   *)
(***************************************************************************)
C1_Operations ==
  {"getQuote", "getInstrument", "getInstrumentBySymbol", "placeBuyOrder", "placeSellOrder",
   "getOrders", "getOrder", "cancelOrder", "getAccounts"}

C1_Steps(e) ==
  LET ep == episodes[e]
      c == ep.chain.id
      r == RecoverAt(e)
      j == log[r + 2].n
      k == log[r + 5].n
      m == log[r + 8].n
  IN /\ Len(log) >= r + 2
     /\ log[r + 1].k = "reset"
     /\ IsRequest(r + 2, "LOGIN")
     /\ net[j].method = "post"
     /\ net[j].form = [password |-> options.credentials.password,
                       username |-> options.credentials.username,
                       mfa_code |-> Undefined]
     /\ (net[j].status = "resolved" /\ Truthy(net[j].body.token)) =>
          /\ Len(log) >= r + 5
          /\ log[r + 3].k = "reset"
          /\ log[r + 4].k = "adopt" /\ log[r + 4].a = net[j].body.token
          /\ IsRequest(r + 5, "ACCOUNTS")
          /\ net[k].status = "resolved" =>
               /\ Len(log) >= r + 8
               /\ IsEmit(r + 6, "ACCOUNT_SETUP")
               /\ IsEmit(r + 7, "AUTHENTICATED")
               /\ log[r + 8].k = "request"
               /\ net[m].chain = ep.chain
               /\ SameRequest(net[m], net[OriginOf(e)])
               /\ net[m].status = "pending" =>
                    Len(log) = r + 8 /\ calls[c].state = "pending"
               /\ net[m].status = "resolved" =>
                    /\ Len(log) = r + 9
                    /\ log[r + 9].k = "settle" /\ log[r + 9].n = c
                    /\ calls[c].state = "resolved"
                    /\ calls[c].value = net[m].body
               /\ \A p \in Since(r) : p <= r + 9 =>
                    ~IsEmit(p, "ERROR") /\ ~IsEmit(p, "CRITICAL")

C2_NotInvalid(error) ==
  \/ ~error.hasDetail
  \/ ToLowerCase(StripNonLetters(error.detail)) # INVALIDTOKEN
C2_Errors ==
  OtherErrors \cup {Error(TRUE, d, "m") : d \in OtherDetails}

C2_OtherErrorsRejected ==
  \A i \in Pending(Cur) : \A error \in C2_Errors :
    (net[i].chain.type = "caller" /\ C2_NotInvalid(error)) =>
      LET s == OnRejected(Cur, i, error)
          c == net[i].chain.id
      IN /\ s.calls[c].state = "rejected"
         /\ s.calls[c].error = error
         /\ s.calls = [calls EXCEPT ![c].state = "rejected", ![c].error = error]
         /\ s.episodes = episodes
         /\ s.net = [net EXCEPT ![i].status = "rejected", ![i].error = error]
         /\ s.authToken = authToken /\ s.account = account
         /\ s.headers = headers /\ s.request = request /\ s.options = options
         /\ Len(s.log) = Len(log) + 1
         /\ SubSeq(s.log, 1, Len(log)) = log
         /\ s.log[Len(s.log)].k = "settle"

C2_Witness ==
  \E c \in DOMAIN calls :
    /\ calls[c].state = "rejected"
    /\ calls[c].error = Error(TRUE, <<"I","n","v","a","l","i","d"," ","t","o","k","e","n","s">>,
                              "Not found")
    /\ episodes = <<>>
    /\ authToken # Null

(***************************************************************************)
(* C3  While a recovery waits for AUTHENTICATED, the promise of the call   *)
(* stays pending whatever else happens (a failed login, MFA_REQUESTED, a   *)
(* failed account fetch, the timer); once the promise is settled, an       *)
(* AUTHENTICATED was emitted after the recovery began, and the promise     *)
(* carries the outcome of the last request of the call, issued after that  *)
(* AUTHENTICATED.                                                          *)
(***************************************************************************)
C3_SettledByReplay(e) ==
  LET chain == episodes[e].chain
      c == chain.id
      m == Max(RequestsOf(chain))
  IN /\ net[m].status = calls[c].state
     /\ calls[c].state = "resolved" => calls[c].value = net[m].body
     /\ calls[c].state = "rejected" => calls[c].error = net[m].error
     /\ \E a \in Emitted("AUTHENTICATED") :
          RecoverAt(e) < a /\ a < RequestAt(m) /\ RequestAt(m) < SettleAt(c)

C3_SettledOnlyByReplay ==
  \A e \in CallerEpisodes :
    /\ episodes[e].listening => calls[episodes[e].chain.id].state = "pending"
    /\ calls[episodes[e].chain.id].state # "pending" => C3_SettledByReplay(e)

C3_Witness ==
  \E e \in CallerEpisodes :
    /\ episodes[e].listening
    /\ episodes[e].timer = "fired"
    /\ \E p \in Emitted("ERROR") : p > RecoverAt(e) /\ log[p].b = "SETTING_ACCOUNT"
    /\ calls[episodes[e].chain.id].state = "pending"

(***************************************************************************)
(* C4  The login of the one recovery is rejected: one ERROR of type        *)
(* AUTHENTICATION with the message of the rejection, no account fetch, no  *)
(* AUTHENTICATED, and one CRITICAL of type UNABLE_TO_AUTHENTICATE once the *)
(* timer has expired.                                                      *)
(***************************************************************************)
\* e is the only recovery and its login request was rejected
C4_LoginRejected(e) ==
  /\ Len(episodes) = 1
  /\ Len(log) >= RecoverAt(e) + 2
  /\ net[LoginOf(e)].status = "rejected"
ErrorsSince(p) == {q \in Emitted("ERROR") : q > p}
CriticalsOf(e) == {q \in Emitted("CRITICAL") : log[q].n = e}

C4_Effects(e) ==
  LET r == RecoverAt(e)
  IN /\ Cardinality(ErrorsSince(r)) = 1
     /\ \A q \in ErrorsSince(r) :
          log[q].b = "AUTHENTICATION" /\ log[q].m = net[LoginOf(e)].error.message
     /\ \A q \in Since(r) : ~IsRequest(q, "ACCOUNTS") /\ ~IsEmit(q, "AUTHENTICATED")
     /\ Cardinality(CriticalsOf(e)) = IF episodes[e].timer = "fired" THEN 1 ELSE 0
     /\ \A q \in CriticalsOf(e) :
          /\ log[q].b = "UNABLE_TO_AUTHENTICATE"
          /\ log[q].m = "Invalid token and unable to authenticate"

\* C4 as claimed: the CRITICAL comes after the ERROR
C4_CriticalAfterError ==
  \A e \in CallerEpisodes :
    (C4_LoginRejected(e) /\ episodes[e].timer = "fired") =>
      /\ C4_Effects(e)
      /\ \A q \in CriticalsOf(e) : \A x \in ErrorsSince(RecoverAt(e)) : x < q

\* C4 as amended: the CRITICAL is emitted when the timer expires, before or
\* after the ERROR
C4_LoginRejectedEffects ==
  \A e \in CallerEpisodes : C4_LoginRejected(e) => C4_Effects(e)

C4_Witness ==
  \E e \in CallerEpisodes :
    /\ C4_LoginRejected(e)
    /\ episodes[e].timer = "fired"
    /\ \A q \in CriticalsOf(e) : \A x \in ErrorsSince(RecoverAt(e)) : q < x

(***************************************************************************)
(* C5  The login of the one recovery succeeds and the account fetch after  *)
(* it is rejected with an error that is not an invalid token: one ERROR of *)
(* type SETTING_ACCOUNT with the message of the rejection, no              *)
(* AUTHENTICATED, no replay, and one CRITICAL once the timer has expired.  *)
(***************************************************************************)
\* e is the only recovery, its login was answered with a token and the
\* account request that followed was rejected
C5_AccountRejected(e) ==
  LET r == RecoverAt(e)
  IN /\ Len(episodes) = 1
     /\ Len(log) >= r + 5
     /\ IsRequest(r + 5, "ACCOUNTS")
     /\ net[log[r + 5].n].status = "rejected"
     /\ ~IsInvalidToken(net[log[r + 5].n].error)

C5_Effects(e) ==
  LET r == RecoverAt(e)
      k == log[r + 5].n
  IN /\ Cardinality(ErrorsSince(r)) = 1
     /\ \A q \in ErrorsSince(r) :
          log[q].b = "SETTING_ACCOUNT" /\ log[q].m = net[k].error.message
     /\ \A q \in Since(r) : ~IsEmit(q, "AUTHENTICATED")
     /\ \A i \in RequestsOf(episodes[e].chain) : RequestAt(i) < r
     /\ calls[episodes[e].chain.id].state = "pending"
     /\ Cardinality(CriticalsOf(e)) = IF episodes[e].timer = "fired" THEN 1 ELSE 0
     /\ \A q \in CriticalsOf(e) :
          /\ log[q].b = "UNABLE_TO_AUTHENTICATE"
          /\ log[q].m = "Invalid token and unable to authenticate"

\* C5 as claimed: the CRITICAL comes after the ERROR
C5_CriticalAfterError ==
  \A e \in CallerEpisodes :
    (C5_AccountRejected(e) /\ episodes[e].timer = "fired") =>
      /\ C5_Effects(e)
      /\ \A q \in CriticalsOf(e) : \A x \in ErrorsSince(RecoverAt(e)) : x < q

\* C5 as amended: the CRITICAL is emitted when the timer expires, before or
\* after the ERROR
C5_AccountRejectedEffects ==
  \A e \in CallerEpisodes : C5_AccountRejected(e) => C5_Effects(e)

C5_Witness ==
  \E e \in CallerEpisodes :
    /\ C5_AccountRejected(e)
    /\ episodes[e].timer = "fired"
    /\ \A q \in CriticalsOf(e) : \A x \in ErrorsSince(RecoverAt(e)) : q < x

(***************************************************************************)
(* C6  Every wrapped call that fails with an invalid token starts its own  *)
(* recovery: each recovery resets the session and issues a login request   *)
(* of its own, whether or not the login of another recovery is in flight.  *)
(***************************************************************************)
PendingLogins == {i \in Pending(Cur) : net[i].uri[1] = "LOGIN"}

\* C6 as claimed: at most one recovery login is in flight at any time
C6_OneLoginInFlight == Cardinality(PendingLogins) <= 1

\* C6 as amended: one login per recovery
C6_LoginPerRecovery ==
  /\ \A e \in DOMAIN episodes :
       /\ Len(log) >= RecoverAt(e) + 2
       /\ log[RecoverAt(e) + 1].k = "reset"
       /\ IsRequest(RecoverAt(e) + 2, "LOGIN")
  /\ \A d, e \in DOMAIN episodes : d # e => LoginOf(d) # LoginOf(e)

C6_Witness ==
  /\ Len(episodes) = 2
  /\ episodes[1].chain # episodes[2].chain
  /\ {LoginOf(1), LoginOf(2)} \subseteq PendingLogins
  /\ LoginOf(1) # LoginOf(2)

(***************************************************************************)
(* C7  authenticate(options) with a falsy options throws                   *)
(* INVALID_ROBINHOOD_CONFIGURATION and changes nothing: no request, no     *)
(* event, the options, token, account and request configuration as they    *)
(* were.  Stated of every falsy value in every reachable state.            *)
(***************************************************************************)
C7_FalsyOptionsThrow ==
  \A o \in FalsyOptions :
    LET s == AuthenticateBody(Cur, o)
    IN /\ s.net = net
       /\ s.options = options
       /\ s.authToken = authToken /\ s.account = account
       /\ s.headers = headers /\ s.request = request
       /\ s.calls = calls /\ s.episodes = episodes
       /\ Len(s.log) = Len(log) + 2
       /\ SubSeq(s.log, 1, Len(log)) = log
       /\ s.log[Len(log) + 1].k = "call" /\ s.log[Len(log) + 1].a = "authenticate"
       /\ s.log[Len(log) + 2].k = "throw"
       /\ s.log[Len(log) + 2].a = "INVALID_ROBINHOOD_CONFIGURATION"

C7_Witness ==
  /\ log[Len(log)].k = "throw" /\ log[Len(log)].a = "INVALID_ROBINHOOD_CONFIGURATION"
  /\ authToken = UserToken
  /\ options = OptionsObject(UserToken, NoCredentials)

(***************************************************************************)
(* C8  authenticate({authToken: T}), with or without credentials, issues   *)
(* one request, the account list, and no login; when that request is       *)
(* answered, ACCOUNT_SETUP and AUTHENTICATED are emitted, once each.        *)
(* Stated of every reachable state the call is made in.                    *)
(***************************************************************************)
TokenOptions == {o \in TruthyOptions : Truthy(o.authToken)}
NewEntries(s, from) == SubSeq(s.log, Len(from.log) + 1, Len(s.log))
EmitsIn(entries) == SelectSeq(entries, LAMBDA x : x.k = "emit")

C8_TokenPath ==
  \A o \in TokenOptions :
    LET s == AuthenticateBody(Cur, o)
        k == Len(s.net)
        new == NewEntries(s, Cur)
    IN /\ k = Len(net) + 1
       /\ s.net[k].uri = <<"ACCOUNTS">> /\ s.net[k].method = "get"
       /\ s.net[k].config.headers = AuthorizationHeader(o.authToken)
       /\ s.net[k].status = "pending"
       /\ [i \in 1..4 |-> new[i].k] = <<"call", "reset", "adopt", "request">>
       /\ Len(new) = 4 /\ new[3].a = o.authToken /\ new[4].n = k
       /\ \A body \in AccountBodies(k) :
            LET s2 == OnResolved(s, k, body)
                emits == EmitsIn(NewEntries(s2, s))
            IN /\ [i \in 1..Len(emits) |-> emits[i].a] = <<"ACCOUNT_SETUP", "AUTHENTICATED">>
               /\ \A i \in (Len(net) + 2)..Len(s2.net) : s2.net[i].uri[1] # "LOGIN"

C8_Witness ==
  /\ nOps = 1
  /\ options = OptionsObject(UserToken, Credentials)
  /\ Cardinality(Emitted("AUTHENTICATED")) = 1
  /\ Len(net) = 1 /\ net[1].uri = <<"ACCOUNTS">>

(***************************************************************************)
(* C9  getAuthToken() between authenticate({authToken: T}) on a fresh      *)
(* session and the AUTHENTICATED event.                                    *)
(***************************************************************************)
\* the only call so far is authenticate({authToken: T, ...})
C9_TokenGiven ==
  /\ nOps = 1
  /\ log[2].k = "call" /\ log[2].a = "authenticate"
  /\ Truthy(options.authToken)

\* C9 as claimed: null in every state before AUTHENTICATED
C9_NullBeforeAuthenticated ==
  (C9_TokenGiven /\ Emitted("AUTHENTICATED") = {}) => authToken = Null

\* C9 as amended: null before authenticate is called, T from its return on, for
\* as long as no recovery has reset the session
C9_TokenFromAuthenticate ==
  /\ nOps = 0 => authToken = Null
  /\ (C9_TokenGiven /\ episodes = <<>>) =>
       /\ authToken = options.authToken
       /\ \A p \in Emitted("AUTHENTICATED") : log[p].tok = options.authToken

C9_Witness ==
  /\ C9_TokenGiven
  /\ Emitted("AUTHENTICATED") = {}
  /\ net[1].status = "pending"
  /\ authToken = UserToken

(***************************************************************************)
(* C10  authenticate({credentials}) on a fresh session: one login request  *)
(* with the username and the password; when it is answered with a token,   *)
(* the token is adopted and one account request leaves with it; when that  *)
(* is answered, AUTHENTICATED is emitted, with the token of the login      *)
(* answer as the current token.                                            *)
(***************************************************************************)
C10_CredentialsGiven ==
  /\ nOps = 1
  /\ log[2].k = "call" /\ log[2].a = "authenticate"
  /\ ~Truthy(options.authToken) /\ options.credentials.defined
  /\ episodes = <<>>

C10_CredentialPath ==
  C10_CredentialsGiven =>
    /\ Len(log) >= 3 /\ IsRequest(3, "LOGIN") /\ log[3].n = 1
    /\ net[1].method = "post"
    /\ net[1].form = [password |-> Credentials.password, username |-> Credentials.username,
                      mfa_code |-> Undefined]
    /\ \A i \in DOMAIN net : i # 1 => net[i].uri[1] # "LOGIN"
    /\ Emitted("AUTHENTICATED") # {} => net[1].status = "resolved"
    /\ (net[1].status = "resolved" /\ Truthy(net[1].body.token)) =>
         /\ Len(log) >= 6
         /\ log[4].k = "reset"
         /\ log[5].k = "adopt" /\ log[5].a = net[1].body.token
         /\ IsRequest(6, "ACCOUNTS") /\ log[6].n = 2
         /\ net[2].config.headers = AuthorizationHeader(net[1].body.token)
         /\ Len(net) = 2
         /\ net[2].status = "pending" => Len(log) = 6
         /\ net[2].status = "resolved" =>
              /\ Len(log) = 8
              /\ IsEmit(7, "ACCOUNT_SETUP")
              /\ IsEmit(8, "AUTHENTICATED")
              /\ log[8].tok = net[1].body.token
              /\ authToken = net[1].body.token

C10_Witness ==
  /\ C10_CredentialsGiven
  /\ Len(log) = 8 /\ IsEmit(8, "AUTHENTICATED")
  /\ authToken = ServerToken(1)

(***************************************************************************)
(* Frames: what a callback leaves alone.                                   *)
(***************************************************************************)
\* s is the instance after the answer to request i, and but for the answer
\* recorded in net and the entries added to the log it is the current one
OnlyAnswered(s, i) ==
  /\ s.options = options
  /\ s.authToken = authToken /\ s.account = account
  /\ s.headers = headers /\ s.request = request
  /\ s.calls = calls /\ s.episodes = episodes
  /\ Len(s.net) = Len(net)
  /\ \A j \in DOMAIN net : j # i => s.net[j] = net[j]
  /\ SubSeq(s.log, 1, Len(log)) = log

\* the one entry the callback added to the log
OneEntry(s) == s.log[Len(log) + 1]
PendingOf(type) == {i \in Pending(Cur) : net[i].chain.type = type}

\* the only call so far is authenticate({credentials}) and no recovery started
CredentialsOnly ==
  /\ nOps = 1
  /\ log[2].k = "call" /\ log[2].a = "authenticate"
  /\ Len(net) >= 1 /\ net[1].uri = <<"LOGIN">>
  /\ episodes = <<>>

(***************************************************************************)
(* C11  A login answered with mfa_required and no token emits              *)
(* MFA_REQUESTED with the mfa_type and changes nothing else: token,        *)
(* account, headers and transport as they were, no request issued.  After  *)
(* authenticate({credentials}) alone, the token and the account are null   *)
(* and AUTHENTICATED has not been emitted.                                 *)
(***************************************************************************)
C11_MfaRequestedOnly ==
  /\ \A i \in PendingOf("login") :
       LET s == OnResolved(Cur, i, Body(Undefined, TRUE, <<>>, i))
       IN /\ OnlyAnswered(s, i)
          /\ Len(s.log) = Len(log) + 1
          /\ OneEntry(s).k = "emit" /\ OneEntry(s).a = "MFA_REQUESTED"
          /\ OneEntry(s).b = "sms"
  /\ (CredentialsOnly /\ net[1].status = "resolved" /\ net[1].body.mfa_required) =>
       /\ authToken = Null /\ account = Null
       /\ headers = DEFAULT_HEADERS /\ request.headers = DEFAULT_HEADERS
       /\ Len(net) = 1
       /\ Emitted("AUTHENTICATED") = {}
       /\ Len(log) = 4 /\ IsEmit(4, "MFA_REQUESTED") /\ log[4].b = "sms"

C11_Witness ==
  /\ CredentialsOnly
  /\ net[1].status = "resolved" /\ net[1].body.mfa_required
  /\ IsEmit(Len(log), "MFA_REQUESTED")

(***************************************************************************)
(* C12  authenticate({credentials}) was answered with mfa_required and the *)
(* user calls loginWithMFA(code): a second login request leaves with the   *)
(* username, the password and the code; when it is answered with a token,  *)
(* the token is adopted and one account request leaves with it; when that  *)
(* is answered, AUTHENTICATED is emitted once, with the token of the       *)
(* second login as the current token.                                      *)
(***************************************************************************)
C12_MfaGiven ==
  /\ nOps = 2
  /\ Len(log) >= 5
  /\ log[2].k = "call" /\ log[2].a = "authenticate"
  /\ IsRequest(3, "LOGIN")
  /\ IsEmit(4, "MFA_REQUESTED")
  /\ log[5].k = "call" /\ log[5].a = "loginWithMFA"
  /\ episodes = <<>>

C12_MfaPath ==
  C12_MfaGiven =>
    /\ Len(log) >= 6 /\ IsRequest(6, "LOGIN") /\ log[6].n = 2
    /\ net[2].method = "post"
    /\ \E code \in MfaCodes :
         net[2].form = [password |-> Credentials.password,
                        username |-> Credentials.username, mfa_code |-> code]
    /\ Emitted("AUTHENTICATED") # {} => net[2].status = "resolved"
    /\ (net[2].status = "resolved" /\ Truthy(net[2].body.token)) =>
         /\ Len(log) >= 9
         /\ log[7].k = "reset"
         /\ log[8].k = "adopt" /\ log[8].a = net[2].body.token
         /\ IsRequest(9, "ACCOUNTS") /\ log[9].n = 3
         /\ net[3].config.headers = AuthorizationHeader(net[2].body.token)
         /\ Len(net) = 3
         /\ net[3].status = "pending" => Len(log) = 9
         /\ net[3].status = "resolved" =>
              /\ Len(log) = 11
              /\ IsEmit(10, "ACCOUNT_SETUP")
              /\ IsEmit(11, "AUTHENTICATED")
              /\ log[11].tok = net[2].body.token
              /\ authToken = net[2].body.token

C12_Witness ==
  /\ C12_MfaGiven
  /\ Len(log) = 11 /\ IsEmit(11, "AUTHENTICATED")
  /\ authToken = ServerToken(2)

(***************************************************************************)
(* C13  The account request that follows the adoption of a token fails.    *)
(***************************************************************************)
\* the only call so far is authenticate({authToken: T, ...})
TokenOnly ==
  /\ nOps = 1
  /\ log[2].k = "call" /\ log[2].a = "authenticate"
  /\ Len(net) >= 1 /\ net[1].uri = <<"ACCOUNTS">>

\* the account request k of the adoption of token tok was rejected
C13_Failed(k, tok) ==
  /\ authToken = tok /\ account = Null
  /\ Emitted("AUTHENTICATED") = {}
  /\ Cardinality(Emitted("ERROR")) = 1
  /\ \A p \in Emitted("ERROR") :
       log[p].b = "SETTING_ACCOUNT" /\ log[p].m = net[k].error.message

\* C13 as claimed: whatever the failure of the account request, the ERROR is
\* emitted and the token stays (here for the token path)
C13_AnyFailureKeepsToken ==
  (TokenOnly /\ net[1].status = "rejected") => C13_Failed(1, options.authToken)

\* C13 as amended: a failure that is not an invalid token emits ERROR of type
\* SETTING_ACCOUNT with its message and changes nothing else, on the token
\* path, the credential path and the MFA path
C13_OtherFailureKeepsToken ==
  /\ \A i \in PendingOf("setAccount") : \A error \in C2_Errors :
       LET s == OnRejected(Cur, i, error)
       IN /\ OnlyAnswered(s, i)
          /\ Len(s.log) = Len(log) + 1
          /\ OneEntry(s).k = "emit" /\ OneEntry(s).a = "ERROR"
          /\ OneEntry(s).b = "SETTING_ACCOUNT" /\ OneEntry(s).m = error.message
  /\ (TokenOnly /\ net[1].status = "rejected" /\ ~IsInvalidToken(net[1].error)) =>
       C13_Failed(1, options.authToken)
  /\ (/\ CredentialsOnly /\ Len(net) >= 2
      /\ net[2].status = "rejected" /\ ~IsInvalidToken(net[2].error)) =>
       C13_Failed(2, net[1].body.token)
  /\ (/\ C12_MfaGiven /\ Len(net) >= 3
      /\ net[3].status = "rejected" /\ ~IsInvalidToken(net[3].error)) =>
       C13_Failed(3, net[2].body.token)

C13_Witness ==
  /\ C12_MfaGiven /\ Len(net) >= 3
  /\ net[3].status = "rejected" /\ ~IsInvalidToken(net[3].error)
  /\ authToken = ServerToken(2)
  /\ IsEmit(Len(log), "ERROR")

(***************************************************************************)
(* C14  A credential login answered with neither a token nor mfa_required  *)
(* emits one ERROR of type UNHANDLED, and a rejected one emits one ERROR   *)
(* of type AUTHENTICATION with the message of the rejection; nothing else  *)
(* changes and no request is issued.  After authenticate({credentials})    *)
(* alone the token and the account are null and AUTHENTICATED has not been *)
(* emitted.                                                                *)
(***************************************************************************)
OneErrorOnly(s, i, type, message) ==
  /\ OnlyAnswered(s, i)
  /\ Len(s.log) = Len(log) + 1
  /\ OneEntry(s).k = "emit" /\ OneEntry(s).a = "ERROR"
  /\ OneEntry(s).b = type /\ OneEntry(s).m = message

C14_LoginFailed ==
  /\ CredentialsOnly
  /\ \/ net[1].status = "rejected"
     \/ /\ net[1].status = "resolved"
        /\ ~Truthy(net[1].body.token) /\ ~net[1].body.mfa_required

C14_LoginFailures ==
  /\ \A i \in PendingOf("login") :
       /\ OneErrorOnly(OnResolved(Cur, i, Body(Undefined, FALSE, <<>>, i)), i,
                       "UNHANDLED", "Authentication body response is invalid")
       /\ \A error \in TransportErrors \cup LoginErrors :
            OneErrorOnly(OnRejected(Cur, i, error), i, "AUTHENTICATION", error.message)
  /\ C14_LoginFailed =>
       /\ authToken = Null /\ account = Null
       /\ Len(net) = 1
       /\ Emitted("AUTHENTICATED") = {}
       /\ Len(log) = 4 /\ IsEmit(4, "ERROR")
       /\ log[4].b = IF net[1].status = "rejected" THEN "AUTHENTICATION" ELSE "UNHANDLED"

C14_Witness ==
  /\ C14_LoginFailed
  /\ net[1].status = "resolved"
  /\ IsEmit(Len(log), "ERROR") /\ log[Len(log)].b = "UNHANDLED"

(***************************************************************************)
(* C15  A login of loginWithMFA answered without a token, mfa_required     *)
(* again included, emits one ERROR of type UNHANDLED, and a rejected one   *)
(* emits one ERROR of type AUTHENTICATION_MFA with the message of the      *)
(* rejection; token, account, headers and transport stay as they were, no  *)
(* request is issued and AUTHENTICATED is not emitted.                     *)
(***************************************************************************)
C15_MfaFailed ==
  /\ C12_MfaGiven /\ Len(net) >= 2
  /\ \/ net[2].status = "rejected"
     \/ net[2].status = "resolved" /\ ~Truthy(net[2].body.token)

C15_MfaFailures ==
  /\ \A i \in PendingOf("mfa") :
       /\ \A mfa \in BOOLEAN :
            OneErrorOnly(OnResolved(Cur, i, Body(Undefined, mfa, <<>>, i)), i,
                         "UNHANDLED", "No token when authenticating using MFA")
       /\ \A error \in TransportErrors \cup LoginErrors :
            OneErrorOnly(OnRejected(Cur, i, error), i, "AUTHENTICATION_MFA", error.message)
  /\ C15_MfaFailed =>
       /\ authToken = Null /\ account = Null
       /\ headers = DEFAULT_HEADERS /\ request.headers = DEFAULT_HEADERS
       /\ Len(net) = 2
       /\ Emitted("AUTHENTICATED") = {}
       /\ Len(log) = 7 /\ IsEmit(7, "ERROR")
       /\ log[7].b = IF net[2].status = "rejected" THEN "AUTHENTICATION_MFA" ELSE "UNHANDLED"

C15_Witness ==
  /\ C15_MfaFailed
  /\ net[2].status = "resolved" /\ net[2].body.mfa_required
  /\ IsEmit(Len(log), "ERROR") /\ log[Len(log)].b = "UNHANDLED"

(***************************************************************************)
(* C16  expireToken() while the token is null returns a promise rejected   *)
(* with the message NO_AUTH_TOKEN, issues no request and changes no field. *)
(* Stated of every reachable state in which the token is null.             *)
(***************************************************************************)
C16_NoTokenRejected ==
  authToken = Null =>
    LET s == ExpireTokenBody(Cur)
        c == Len(calls) + 1
    IN /\ s.net = net
       /\ s.options = options
       /\ s.authToken = Null /\ s.account = account
       /\ s.headers = headers /\ s.request = request
       /\ s.episodes = episodes
       /\ s.calls = Append(calls, Promise(Input("expireToken", NoArg), "rejected",
                                          EmptyObject, NoAuthTokenError))
       /\ s.calls[c].error.message = "NO_AUTH_TOKEN"
       /\ Len(s.log) = Len(log) + 2
       /\ SubSeq(s.log, 1, Len(log)) = log
       /\ s.log[Len(log) + 1].k = "call" /\ s.log[Len(log) + 2].k = "settle"

\* expireToken() was rejected while the session waited for the MFA code
C16_Witness ==
  /\ nOps = 2
  /\ Len(log) = 6 /\ IsEmit(4, "MFA_REQUESTED")
  /\ log[5].k = "call" /\ log[5].a = "expireToken"
  /\ calls[1].state = "rejected" /\ calls[1].error = NoAuthTokenError
  /\ Len(net) = 1

(***************************************************************************)
(* C17  expireToken() while the token is set issues one POST to the logout *)
(* endpoint from the current transport, which carries the token; when the  *)
(* request is answered the session is reset and then the promise resolves: *)
(* token and account null, default headers, transport rebuilt from them.   *)
(***************************************************************************)
C17_LogoutIssued ==
  authToken # Null =>
    LET s == ExpireTokenBody(Cur)
        k == Len(net) + 1
    IN /\ Len(s.net) = k
       /\ s.net[k].method = "post" /\ s.net[k].uri = <<"LOGOUT">>
       /\ s.net[k].config = request
       /\ s.net[k].config.headers = AuthorizationHeader(authToken)
       /\ s.net[k].chain = Chain("logout", Len(calls) + 1)
       /\ s.authToken = authToken /\ s.account = account
       /\ s.headers = headers /\ s.request = request
       /\ s.calls[Len(calls) + 1].state = "pending"

C17_LogoutAnswered ==
  \A i \in PendingOf("logout") :
    LET body == PlainBody(i)
        s == OnResolved(Cur, i, body)
        c == net[i].chain.id
    IN /\ s.authToken = Null /\ s.account = Null
       /\ s.headers = DEFAULT_HEADERS
       /\ s.request = [headers |-> DEFAULT_HEADERS, json |-> TRUE, gzip |-> TRUE]
       /\ Len(s.net) = Len(net)
       /\ Len(s.log) = Len(log) + 2
       /\ s.log[Len(log) + 1].k = "reset"
       /\ s.log[Len(log) + 2].k = "settle" /\ s.log[Len(log) + 2].n = c
       /\ s.log[Len(log) + 2].tok = Null /\ s.log[Len(log) + 2].acct = Null
       /\ s.calls[c].state = "resolved" /\ s.calls[c].value = body

C17_LogoutResets == C17_LogoutIssued /\ C17_LogoutAnswered

C17_Witness ==
  \E c \in DOMAIN calls :
    /\ calls[c].inp.op = "expireToken" /\ calls[c].state = "resolved"
    /\ Emitted("AUTHENTICATED") # {}
    /\ authToken = Null /\ account = Null /\ request.headers = DEFAULT_HEADERS

(***************************************************************************)
(* C18  In every reachable state, a null token implies a null account.     *)
(***************************************************************************)
C18_NoAccountWithoutToken == authToken = Null => account = Null

(***************************************************************************)
(* C19  In every reachable state the headers carry the Authorization       *)
(* header of the token exactly when the token is set, the transport was    *)
(* built from those headers, and every request left with the headers of    *)
(* the token current when it was issued.                                   *)
(***************************************************************************)
HeadersOf(tok) == IF tok = Null THEN DEFAULT_HEADERS ELSE AuthorizationHeader(tok)

C19_ConfigurationFollowsToken ==
  /\ headers = HeadersOf(authToken)
  /\ request = [headers |-> headers, json |-> TRUE, gzip |-> TRUE]
  /\ \A i \in DOMAIN net : net[i].config.headers = HeadersOf(log[RequestAt(i)].tok)

\* a request that left with a token, and a later one that left without
C19_Witness ==
  \E i, j \in DOMAIN net :
    /\ i < j
    /\ net[i].config.headers = AuthorizationHeader(UserToken)
    /\ net[j].config.headers = DEFAULT_HEADERS
    /\ authToken # Null /\ authToken # UserToken

(***************************************************************************)
(* C20  No call of the authentication lifecycle throws, but for            *)
(* authenticate with a falsy options: the only exception that ever leaves  *)
(* authenticate or loginWithMFA is INVALID_ROBINHOOD_CONFIGURATION.        *)
(***************************************************************************)
C20_OnlyConfigurationThrown ==
  \A p \in DOMAIN log :
    (log[p].k = "throw" /\ log[p].b \in {"authenticate", "loginWithMFA"}) =>
      log[p].a = "INVALID_ROBINHOOD_CONFIGURATION"

(***************************************************************************)
(* C21  The replay of a recovered call is the request of the original      *)
(* call: every request of a promise chain of the user has the method, the  *)
(* URI and the parameters of the first one, for every wrapped operation,   *)
(* requestURI with "get" and with "post" included.                         *)
(***************************************************************************)
\* the body of an order names the account of the session, not an argument
C21_Parameters(r, op) ==
  IF op \in {"placeBuyOrder", "placeSellOrder"}
  THEN [r.form EXCEPT !.account = Undefined]
  ELSE r.form

C21_ReplayIsSameRequest ==
  \A e \in CallerEpisodes :
    LET op == calls[episodes[e].chain.id].inp.op
    IN \A m \in RequestsOf(episodes[e].chain) :
         RequestAt(m) > RecoverAt(e) =>
           /\ SameRequest(net[m], net[OriginOf(e)])
           /\ C21_Parameters(net[m], op) = C21_Parameters(net[OriginOf(e)], op)

(***************************************************************************)
(* C22  cancelOrder of an order in a terminal state resolves with an empty *)
(* object, issues no request and changes nothing; of any other order it    *)
(* issues one POST, to order.cancel when the order has one, else to the    *)
(* cancel endpoint of order.id; a rejection of that POST with an invalid   *)
(* token starts a recovery whose replay is the same POST, and any other    *)
(* rejection rejects the promise.  Stated of every reachable state.        *)
(***************************************************************************)
C22_Terminal ==
  {Order(st, u, "o1") : st \in TerminalStates, u \in {"cancelUrl", Undefined}}
C22_Open ==
  {Order(st, "cancelUrl", id) : st \in {"confirmed", "queued", Undefined},
                                id \in {"o1", Undefined}}
    \cup {Order(st, Undefined, "o1") : st \in {"confirmed", "queued", Undefined}}
C22_Cancel(order) == Input("cancelOrder", [NoArg EXCEPT !.order = order])

\* nothing of the session changed between the state and s
C22_SessionKept(s) ==
  /\ s.options = options /\ s.authToken = authToken /\ s.account = account
  /\ s.headers = headers /\ s.request = request /\ s.episodes = episodes

C22_TerminalResolves ==
  \A order \in C22_Terminal :
    LET s == CallBody(Cur, C22_Cancel(order))
        c == Len(calls) + 1
    IN /\ s.net = net
       /\ C22_SessionKept(s)
       /\ Len(s.calls) = c
       /\ s.calls[c].state = "resolved" /\ s.calls[c].value = EmptyObject
       /\ \A p \in DOMAIN s.log : p > Len(log) => s.log[p].k \in {"call", "settle"}

C22_OpenPosts ==
  \A order \in C22_Open :
    LET s == CallBody(Cur, C22_Cancel(order))
        c == Len(calls) + 1
        i == Len(net) + 1
        uri == IF order.cancel # Undefined THEN <<order.cancel>>
               ELSE <<"CANCEL_ORDER", order.id>>
    IN /\ Len(s.net) = i
       /\ SubSeq(s.net, 1, Len(net)) = net
       /\ s.net[i].method = "post" /\ s.net[i].uri = uri
       /\ s.net[i].qs = <<>> /\ s.net[i].form = <<>>
       /\ s.net[i].chain = Chain("caller", c)
       /\ C22_SessionKept(s)
       /\ s.calls[c].state = "pending"
       /\ LET t == OnRejected(s, i, InvalidTokenError)
              e == Len(episodes) + 1
          IN /\ Len(t.episodes) = e
             /\ t.episodes[e].chain = Chain("caller", c)
             /\ t.calls[c].state = "pending"
             /\ LET u == Invoke(t, t.episodes[e].chain, t.episodes[e].replay)
                IN /\ Len(u.net) = Len(t.net) + 1
                   /\ SameRequest(u.net[Len(u.net)], s.net[i])
       /\ \A error \in OtherErrors :
            LET t == OnRejected(s, i, error)
            IN /\ t.episodes = episodes
               /\ t.calls[c].state = "rejected" /\ t.calls[c].error = error

C22_CancelOrder == C22_TerminalResolves /\ C22_OpenPosts

\* an order with both a cancel URL and an id was cancelled after a recovery
C22_Witness ==
  \E e \in CallerEpisodes :
    LET c == episodes[e].chain.id
        m == Max(RequestsOf(episodes[e].chain))
    IN /\ calls[c].inp = C22_Cancel(Order("confirmed", "cancelUrl", "o1"))
       /\ calls[c].state = "resolved"
       /\ RequestAt(m) > RecoverAt(e)
       /\ net[m].method = "post" /\ net[m].uri = <<"cancelUrl">>

(***************************************************************************)
(* C23  getQuote of a list of symbols issues the request getQuote of the   *)
(* comma-joined string issues, in whatever letter case the string is       *)
(* written: a GET of the quotes endpoint whose symbols parameter is the    *)
(* joined string in upper case; the replay of either call issues the same  *)
(* query.  Stated of every reachable state.                                *)
(***************************************************************************)
\* a list of symbols, spellings of its comma-joined string, and the
\* parameter the request is to carry
C23_Case(list, strings, symbols) == [list |-> list, strings |-> strings, symbols |-> symbols]
C23_Cases ==
  { C23_Case(<<FB, AAPL>>,
             { <<"f","b",",","A","a","P","l">>, <<"F","B",",","A","A","P","L">>,
               <<"f","b",",","a","a","p","l">>, <<"F","b",",","a","A","p","L">> },
             <<"F","B",",","A","A","P","L">>),
    C23_Case(<<AAPL, FB>>,
             { <<"A","a","P","l",",","f","b">>, <<"a","a","p","l",",","F","B">> },
             <<"A","A","P","L",",","F","B">>),
    C23_Case(<<FB>>, { <<"f","b">>, <<"F","B">>, <<"F","b">> }, <<"F","B">>),
    C23_Case(<<FB, FB, FB>>, { <<"f","b",",","f","B",",","F","b">> },
             <<"F","B",",","F","B",",","F","B">>) }
C23_Quote(symbols) == Input("getQuote", [NoArg EXCEPT !.symbols = symbols])

\* the call issues one GET of the quotes with the parameter, and so does
\* the closure kept for its replay
C23_Issues(inp, symbols) ==
  LET s == CallBody(Cur, inp)
      i == Len(net) + 1
      t == Invoke(s, s.net[i].chain, s.net[i].replay)
  IN /\ Len(s.net) = i
     /\ s.net[i].method = "get" /\ s.net[i].uri = <<"QUOTES">>
     /\ s.net[i].qs = [symbols |-> symbols] /\ s.net[i].form = <<>>
     /\ Len(t.net) = i + 1
     /\ SameRequest(t.net[i + 1], s.net[i])
     /\ t.net[i + 1].form = s.net[i].form

C23_ShapeAndCaseIgnored ==
  \A case \in C23_Cases :
    /\ C23_Issues(C23_Quote(Symbols(TRUE, case.list, <<>>)), case.symbols)
    /\ \A str \in case.strings :
         C23_Issues(C23_Quote(Symbols(FALSE, <<>>, str)), case.symbols)

\* a quote of a list was replayed after a recovery
C23_Witness ==
  \E e \in CallerEpisodes :
    LET c == episodes[e].chain.id
        m == Max(RequestsOf(episodes[e].chain))
    IN /\ calls[c].inp = C23_Quote(Symbols(TRUE, <<FB, AAPL>>, <<>>))
       /\ RequestAt(m) > RecoverAt(e)
       /\ net[m].qs = [symbols |-> <<"F","B",",","A","A","P","L">>]
       /\ net[OriginOf(e)].qs = net[m].qs
       /\ calls[c].state = "resolved"

(***************************************************************************)
(* C24  Within the retry of one call the order is: the request, rejected   *)
(* with an invalid token; then the login of this call's recovery; then the *)
(* replay.  No request of the call leaves between the start of a recovery  *)
(* of the call and the login of that recovery, whatever other calls and    *)
(* answers come in between.                                                *)
(***************************************************************************)
C24_Ordered(e) ==
  LET r == RecoverAt(e)
      o == OriginOf(e)
  IN /\ RequestAt(o) < r
     /\ net[o].status = "rejected" /\ IsInvalidToken(net[o].error)
     /\ Len(log) >= r + 2
     /\ IsRequest(r + 2, "LOGIN")
     /\ \A m \in RequestsOf(episodes[e].chain) :
          RequestAt(m) > r => RequestAt(m) > r + 2

C25_ResetThenLogin(e) ==
  LET r == RecoverAt(e)
      j == log[r + 2].n
  IN /\ Len(log) >= r + 2
     /\ log[r + 1].k = "reset"
     /\ log[r + 1].tok = Null /\ log[r + 1].acct = Null
     /\ IsRequest(r + 2, "LOGIN")
     /\ log[r + 2].tok = Null /\ log[r + 2].acct = Null
     /\ net[j].method = "post"
     /\ net[j].config.headers = DEFAULT_HEADERS
     /\ net[j].form = [password |-> "bar", username |-> "foo", mfa_code |-> Undefined]
     /\ \A p \in Since(r) :
          log[p].k = "adopt" =>
            /\ log[p].a # UserToken
            /\ \E i \in DOMAIN net :
                 /\ net[i].uri = <<"LOGIN">>
                 /\ net[i].status = "resolved" /\ net[i].body.token = log[p].a

C25_RecoveryUsesCredentials == \A e \in DOMAIN episodes : C25_ResetThenLogin(e)

\* a session authenticated with {authToken, credentials} recovered: its
\* token is the one of the login answer
C25_Witness ==
  \E e \in CallerEpisodes :
    /\ options.authToken = UserToken
    /\ episodes[e].timer = "cleared"
    /\ calls[episodes[e].chain.id].state = "resolved"
    /\ authToken \notin {Null, UserToken}
    /\ account # Null

(***************************************************************************)
(* C26  The timer of a recovery that registered its listener is disarmed   *)
(* when AUTHENTICATED is emitted: no CRITICAL is emitted for a recovery    *)
(* that began before an AUTHENTICATED already emitted.                     *)
(***************************************************************************)
C26_NoCriticalAfterAuthenticated ==
  \A q \in Emitted("CRITICAL") :
    \A a \in Emitted("AUTHENTICATED") :
      ~(RecoverAt(log[q].n) < a /\ a < q)

(***************************************************************************)
(* C27  Calls that fail with an invalid token recover one by one: each     *)
(* recovery resets and issues a login of its own, and one AUTHENTICATED    *)
(* serves them all: every recovery that began before an AUTHENTICATED has  *)
(* its listener removed, its timer no longer armed and a request of its    *)
(* call issued after the first such AUTHENTICATED.                         *)
(***************************************************************************)
C27_OwnLogin(e) ==
  LET r == RecoverAt(e)
  IN /\ Len(log) >= r + 2
     /\ log[r + 1].k = "reset"
     /\ IsRequest(r + 2, "LOGIN")

C27_Served(e, a) ==
  /\ ~episodes[e].listening
  /\ episodes[e].timer # "armed"
  /\ \E m \in RequestsOf(episodes[e].chain) : RequestAt(m) > a

\* the AUTHENTICATED emitted since the recovery e began
C27_Since(e) == {a \in Emitted("AUTHENTICATED") : RecoverAt(e) < a}

C27_OneAuthenticatedServesAll ==
  \A e \in DOMAIN episodes :
    /\ C27_OwnLogin(e)
    /\ C27_Since(e) # {} =>
         C27_Served(e, CHOOSE a \in C27_Since(e) : \A b \in C27_Since(e) : a <= b)

(***************************************************************************)
(* C28  Whenever AUTHENTICATED is emitted the token and the account are    *)
(* set, and a request issued by a listener of that AUTHENTICATED leaves    *)
(* with the Authorization header.                                          *)
(***************************************************************************)
\* the requests the listeners of the emission at a issued: the entries that
\* follow it in the log
RECURSIVE C28_Replays(_)
C28_Replays(p) ==
  IF p <= Len(log) /\ log[p].k = "request" /\ log[p].a # "LOGIN"
  THEN {log[p].n} \cup C28_Replays(p + 1)
  ELSE {}

C28_AuthenticatedWithSession ==
  \A a \in Emitted("AUTHENTICATED") :
    /\ log[a].tok # Null
    /\ log[a].acct # Null
    /\ \A m \in C28_Replays(a + 1) : net[m].config.headers # DEFAULT_HEADERS

(***************************************************************************)
(* C29  In every reachable state an account that is set is the first       *)
(* result of an account fetch of setAccount that was issued under the      *)
(* token now in place, with no reset and no adoption since it was issued.  *)
(***************************************************************************)
C29_FetchedUnderToken(i) ==
  /\ net[i].uri = <<"ACCOUNTS">>
  /\ net[i].chain.type = "setAccount"
  /\ net[i].status = "resolved"
  /\ FirstResult(net[i].body) = account
  /\ log[RequestAt(i)].tok = authToken
  /\ \A p \in Since(RequestAt(i)) : log[p].k \notin {"reset", "adopt"}

C29_AccountOfCurrentToken ==
  account # Null => \E i \in DOMAIN net : C29_FetchedUnderToken(i)

(***************************************************************************)
(* C30  AUTHENTICATED is emitted once for each ACCOUNT_SETUP, right after  *)
(* it, and ACCOUNT_SETUP once for each answered account fetch of           *)
(* setAccount and by nothing else: not by the answer to a public           *)
(* getAccounts(), not by a login answer, not by a rejection, not by a call *)
(* of the user.  At the emission the account is the first element of the   *)
(* list the fetch was answered with.                                       *)
(***************************************************************************)
C30_Paired ==
  \A p \in DOMAIN log :
    /\ IsEmit(p, "ACCOUNT_SETUP") => (p < Len(log) /\ IsEmit(p + 1, "AUTHENTICATED"))
    /\ IsEmit(p, "AUTHENTICATED") => (p > 1 /\ IsEmit(p - 1, "ACCOUNT_SETUP"))

C30_OncePerBootstrap ==
  Cardinality(Emitted("AUTHENTICATED")) =
    Cardinality({i \in DOMAIN net : net[i].chain.type = "setAccount"
                                     /\ net[i].status = "resolved"})

\* the entries a callback added to the log, none of them an emission of
\* ACCOUNT_SETUP or AUTHENTICATED
C30_Silent(s) ==
  \A p \in (Len(log) + 1)..Len(s.log) :
    ~(s.log[p].k = "emit" /\ s.log[p].a \in {"ACCOUNT_SETUP", "AUTHENTICATED"})

C30_BootstrapAnswered ==
  \A i \in PendingOf("setAccount") :
    \A body \in AccountBodies(i) \cup {NoAccounts(i)} :
      LET s == OnResolved(Cur, i, body)
          a == Len(log) + 2
          first == IF body.results = <<>> THEN Undefined ELSE Head(body.results)
      IN /\ Len(s.log) >= a
         /\ s.log[a - 1].k = "emit" /\ s.log[a - 1].a = "ACCOUNT_SETUP"
         /\ s.log[a].k = "emit" /\ s.log[a].a = "AUTHENTICATED"
         /\ s.log[a].acct = first /\ s.account = first
         /\ \A p \in (a + 1)..Len(s.log) : s.log[p].k # "emit"

C30_OthersSilent ==
  \A i \in Pending(Cur) :
    /\ net[i].chain.type # "setAccount" =>
         \A body \in ResolveBodies(Cur, i) :
           LET s == OnResolved(Cur, i, body)
           IN /\ C30_Silent(s)
              /\ net[i].chain.type = "caller" => s.account = account
    /\ \A error \in TransportErrors \cup LoginErrors :
         C30_Silent(OnRejected(Cur, i, error))

C30_AuthenticatedByBootstrapOnly ==
  C30_Paired /\ C30_OncePerBootstrap /\ C30_BootstrapAnswered /\ C30_OthersSilent

\* a public getAccounts() was answered after the one bootstrap of the session
C30_Witness ==
  \E c \in DOMAIN calls :
    /\ calls[c].inp.op = "getAccounts" /\ calls[c].state = "resolved"
    /\ calls[c].value.results # <<>>
    /\ Head(calls[c].value.results) # account
    /\ Cardinality(Emitted("AUTHENTICATED")) = 1
    /\ account # Null

(***************************************************************************)
(* C31  UNABLE_TO_AUTHENTICATE is emitted on CRITICAL only, CRITICAL       *)
(* carries no other type, and CRITICAL is emitted by the expiry of the     *)
(* timer of a recovery only: every CRITICAL names a recovery whose timer   *)
(* has fired, and there is one CRITICAL for each fired timer.              *)
(***************************************************************************)
C31_ErrorTypes ==
  {"AUTHENTICATION", "AUTHENTICATION_MFA", "SETTING_ACCOUNT", "UNHANDLED"}

C31_ChannelsDisjoint ==
  /\ \A p \in Emitted("ERROR") : log[p].b \in C31_ErrorTypes
  /\ \A p \in Emitted("CRITICAL") :
       /\ log[p].b = "UNABLE_TO_AUTHENTICATE"
       /\ log[p].n \in DOMAIN episodes
       /\ episodes[log[p].n].timer = "fired"
       /\ \A q \in Emitted("CRITICAL") : log[q].n = log[p].n => q = p
  /\ \A e \in DOMAIN episodes :
       episodes[e].timer = "fired" => \E p \in Emitted("CRITICAL") : log[p].n = e
  /\ \A p \in DOMAIN log :
       log[p].k = "emit" =>
         log[p].a \in {"ACCOUNT_SETUP", "AUTHENTICATED", "CRITICAL", "ERROR", "MFA_REQUESTED"}

\* a failed recovery login reported on ERROR and the expired timer on CRITICAL
C31_Witness ==
  /\ \E p \in Emitted("ERROR") : log[p].b = "AUTHENTICATION"
  /\ \E p \in Emitted("CRITICAL") : log[p].b = "UNABLE_TO_AUTHENTICATE"
  /\ \E p \in DOMAIN log : log[p].k = "call" /\ log[p].a = "authenticate"

(***************************************************************************)
(* C32  The expiry of the timer does not end a recovery: it emits CRITICAL *)
(* and changes nothing else, the listener stays registered and the promise *)
(* pending; an AUTHENTICATED emitted afterwards removes the listener and   *)
(* issues the replay of the call, and the answer to that replay settles    *)
(* the promise.                                                            *)
(***************************************************************************)
\* the expiry of an armed timer, applied in every reachable state
C32_ExpiryOnlyEmits ==
  \A e \in DOMAIN episodes :
    episodes[e].timer = "armed" =>
      LET s == TimeoutBody(Cur, e)
      IN /\ s.episodes = [episodes EXCEPT ![e].timer = "fired"]
         /\ s.calls = calls /\ s.net = net
         /\ s.authToken = authToken /\ s.account = account /\ s.request = request
         /\ Len(s.log) = Len(log) + 1
         /\ s.log[Len(s.log)].k = "emit" /\ s.log[Len(s.log)].a = "CRITICAL"
         /\ s.log[Len(s.log)].n = e

\* e is a recovery of a call of the user whose timer has expired and whose
\* listener is registered
C32_Expired(e) ==
  /\ episodes[e].chain.type = "caller"
  /\ episodes[e].timer = "fired"
  /\ episodes[e].listening

C32_ReplayedLater ==
  \A e \in DOMAIN episodes :
    C32_Expired(e) =>
      LET chain == episodes[e].chain
          c == chain.id
      IN /\ calls[c].state = "pending"
         /\ \A i \in PendingOf("setAccount") : \A body \in AccountBodies(i) :
              LET s == OnResolved(Cur, i, body)
                  R == {m \in DOMAIN s.net : m > Len(net) /\ s.net[m].chain = chain}
              IN /\ ~s.episodes[e].listening
                 /\ s.episodes[e].timer = "fired"
                 /\ Cardinality(R) = 1
                 /\ \A m \in R :
                      /\ s.net[m].uri = net[OriginOf(e)].uri
                      /\ s.net[m].qs = net[OriginOf(e)].qs
                      /\ s.calls[c].state = "pending"
                      /\ \A answer \in ResolveBodies(s, m) :
                           LET t == OnResolved(s, m, answer)
                           IN t.calls[c].state = "resolved" /\ t.calls[c].value = answer
                      /\ \A error \in OtherErrors :
                           LET t == OnRejected(s, m, error)
                           IN t.calls[c].state = "rejected" /\ t.calls[c].error = error

C33_Replays ==
  {m \in DOMAIN net : \E e \in CallerEpisodes :
     episodes[e].chain = net[m].chain /\ RecoverAt(e) < RequestAt(m)}

C33_ReplayRejected ==
  \A m \in C33_Replays \cap Pending(Cur) :
    LET s == OnRejected(Cur, m, InvalidTokenError)
        e == Len(episodes) + 1
        r == Len(log) + 1
    IN /\ Len(s.episodes) = e
       /\ s.episodes[e].chain = net[m].chain
       /\ s.episodes[e].timer = "armed" /\ s.episodes[e].listening
       /\ Len(s.log) = r + 2
       /\ s.log[r].k = "recover" /\ s.log[r].n = e
       /\ s.log[r + 1].k = "reset"
       /\ s.log[r + 2].k = "request" /\ s.log[r + 2].a = "LOGIN"
       /\ s.calls[net[m].chain.id].state = "pending"

C33_Logins == {i \in DOMAIN net : net[i].uri = <<"LOGIN">> /\ i > 2}
C33_Rejected ==
  {i \in DOMAIN net : net[i].chain.type = "caller" /\ net[i].status = "rejected"}

C33_NeverSettles ==
  /\ C33_ReplayRejected
  /\ \A c \in DOMAIN calls : calls[c].state = "pending"
  /\ Cardinality(C33_Logins) = Cardinality(C33_Rejected)
  /\ Cardinality(C33_Logins) = Len(episodes)

\* the third login for the one call
C33_Witness ==
  /\ Len(calls) = 1 /\ calls[1].state = "pending"
  /\ Cardinality(C33_Logins) = 3
  /\ Cardinality(C33_Replays) = 2
  /\ \A m \in C33_Replays : net[m].status = "rejected"

(***************************************************************************)
(* C34  The login of the one recovery is answered with mfa_required:       *)
(* MFA_REQUESTED is emitted, the token stays null and the promise pending. *)
(* loginWithMFA is called next and its login is answered with a token      *)
(* before the timer expires: the token is adopted, the account fetched,    *)
(* AUTHENTICATED emitted, the timer cleared and the call replayed, and no  *)
(* ERROR and no CRITICAL is emitted.                                       *)
(***************************************************************************)
\* e is the only recovery, its timer has not expired, the answer to its
\* login was mfa_required, and loginWithMFA was called once at most
C34_MfaRequested(e) ==
  LET r == RecoverAt(e)
  IN /\ Len(episodes) = 1
     /\ episodes[e].chain.type = "caller"
     /\ episodes[e].timer # "fired"
     /\ Len(log) >= r + 3
     /\ IsEmit(r + 3, "MFA_REQUESTED")
     /\ Cardinality({p \in DOMAIN log : log[p].k = "call" /\ log[p].a = "loginWithMFA"}) <= 1

C34_Steps(e) ==
  LET ep == episodes[e]
      c == ep.chain.id
      r == RecoverAt(e)
      j == log[r + 5].n
      k == log[r + 8].n
      m == log[r + 11].n
  IN /\ log[r + 3].tok = Null /\ log[r + 3].acct = Null
     /\ net[LoginOf(e)].status = "resolved" /\ net[LoginOf(e)].body.mfa_required
     /\ Len(log) = r + 3 => (authToken = Null /\ calls[c].state = "pending" /\ ep.listening)
     /\ (Len(log) >= r + 4 /\ log[r + 4].k = "call" /\ log[r + 4].a = "loginWithMFA") =>
          /\ Len(log) >= r + 5
          /\ IsRequest(r + 5, "LOGIN")
          /\ log[r + 5].tok = Null
          /\ \E code \in MfaCodes :
               net[j].form = [password |-> "bar", username |-> "foo", mfa_code |-> code]
          /\ net[j].status = "pending" =>
               (Len(log) = r + 5 /\ authToken = Null /\ calls[c].state = "pending")
          /\ (net[j].status = "resolved" /\ Truthy(net[j].body.token)) =>
               /\ Len(log) >= r + 8
               /\ log[r + 6].k = "reset"
               /\ log[r + 7].k = "adopt" /\ log[r + 7].a = net[j].body.token
               /\ IsRequest(r + 8, "ACCOUNTS")
               /\ net[k].config.headers = AuthorizationHeader(net[j].body.token)
               /\ net[k].status = "pending" =>
                    (Len(log) = r + 8 /\ calls[c].state = "pending" /\ ep.timer = "armed")
               /\ net[k].status = "resolved" =>
                    /\ Len(log) >= r + 11
                    /\ IsEmit(r + 9, "ACCOUNT_SETUP")
                    /\ IsEmit(r + 10, "AUTHENTICATED")
                    /\ log[r + 10].tok = net[j].body.token
                    /\ log[r + 11].k = "request"
                    /\ net[m].chain = ep.chain
                    /\ net[m].uri = net[OriginOf(e)].uri /\ net[m].qs = net[OriginOf(e)].qs
                    /\ net[m].config.headers = AuthorizationHeader(net[j].body.token)
                    /\ ep.timer = "cleared" /\ ~ep.listening
                    /\ net[m].status = "pending" =>
                         (Len(log) = r + 11 /\ calls[c].state = "pending")
                    /\ net[m].status = "resolved" =>
                         /\ Len(log) = r + 12
                         /\ log[r + 12].k = "settle" /\ log[r + 12].n = c
                         /\ calls[c].state = "resolved" /\ calls[c].value = net[m].body
                    /\ \A p \in Since(r) : p <= r + 12 =>
                         ~IsEmit(p, "ERROR") /\ ~IsEmit(p, "CRITICAL")

C35_BootstrapRejected(e) ==
  /\ Len(episodes) = 1
  /\ episodes[e].chain.type = "setAccount"
  /\ episodes[e].timer # "fired"
  /\ options.credentials = Credentials

C35_Steps(e) ==
  LET ep == episodes[e]
      r == RecoverAt(e)
      o == OriginOf(e)
      j == log[r + 2].n
      k == log[r + 5].n
      m == log[r + 8].n
  IN /\ net[o].uri = <<"ACCOUNTS">> /\ IsInvalidToken(net[o].error)
     /\ \A p \in Emitted("ERROR") :
          log[p].b = "SETTING_ACCOUNT" =>
            \E i \in DOMAIN net \ {o} :
              /\ net[i].uri = <<"ACCOUNTS">> /\ net[i].status = "rejected"
              /\ ~IsInvalidToken(net[i].error) /\ net[i].error.message = log[p].m
     /\ Len(log) >= r + 2
     /\ log[r + 1].k = "reset"
     /\ IsRequest(r + 2, "LOGIN")
     /\ (net[j].status = "resolved" /\ Truthy(net[j].body.token)) =>
          /\ Len(log) >= r + 5
          /\ log[r + 3].k = "reset"
          /\ log[r + 4].k = "adopt" /\ log[r + 4].a = net[j].body.token
          /\ IsRequest(r + 5, "ACCOUNTS")
          /\ net[k].chain # ep.chain
          /\ net[k].status = "resolved" =>
               /\ Len(log) >= r + 8
               /\ IsEmit(r + 6, "ACCOUNT_SETUP")
               /\ IsEmit(r + 7, "AUTHENTICATED")
               /\ log[r + 7].acct = Head(net[k].body.results)
               /\ IsRequest(r + 8, "ACCOUNTS")
               /\ net[m].chain = ep.chain
               /\ SameRequest(net[m], net[o])
               /\ ep.timer = "cleared" /\ ~ep.listening
               /\ net[m].status = "pending" => Len(log) = r + 8
               /\ net[m].status = "resolved" =>
                    /\ Len(log) = r + 10
                    /\ IsEmit(r + 9, "ACCOUNT_SETUP")
                    /\ IsEmit(r + 10, "AUTHENTICATED")
                    /\ account = Head(net[m].body.results)
                    /\ Cardinality({a \in Emitted("AUTHENTICATED") : a > r}) = 2
                    /\ {i \in DOMAIN net : net[i].uri = <<"ACCOUNTS">> /\ RequestAt(i) > RequestAt(o) - 1}
                         = {o, k, m}
                    /\ Cardinality({o, k, m}) = 3

C35_RecoveryStarted ==
  \A i \in DOMAIN net :
    net[i].uri = <<"ACCOUNTS">> /\ net[i].status = "rejected"
      /\ IsInvalidToken(net[i].error) /\ net[i].chain.type = "setAccount"
    => \E e \in DOMAIN episodes : episodes[e].chain = net[i].chain

C35_BootstrapRecovered ==
  /\ C35_RecoveryStarted
  /\ \A e \in DOMAIN episodes : C35_BootstrapRejected(e) => C35_Steps(e)

\* the second AUTHENTICATED of the one failure
C35_Witness ==
  \E e \in DOMAIN episodes :
    /\ C35_BootstrapRejected(e)
    /\ Len(log) = RecoverAt(e) + 10
    /\ IsEmit(RecoverAt(e) + 7, "AUTHENTICATED")
    /\ IsEmit(RecoverAt(e) + 10, "AUTHENTICATED")
    /\ Cardinality({i \in DOMAIN net : net[i].uri = <<"ACCOUNTS">>}) = 3


(***************************************************************************)
(* C36  An invalid token on a session that was given a token only.         *)
(***************************************************************************)
\* the options in force hold a token and no credentials
C36_TokenOnlySession ==
  /\ options.js = "object"
  /\ Truthy(options.authToken)
  /\ ~options.credentials.defined

\* the invalid-token rejection of the pending request i of a caller: the
\* session is reset, no request is issued, the recovery has no listener, the
\* caller's promise is rejected with the TypeError of login(), the timer is
\* armed and its expiry emits CRITICAL
C36_Rejected(i) ==
  LET s == OnRejected(Cur, i, InvalidTokenError)
      e == Len(episodes) + 1
      c == net[i].chain.id
      new == NewEntries(s, Cur)
  IN /\ s.authToken = Null /\ s.account = Null /\ s.headers = DEFAULT_HEADERS
     /\ s.options = options
     /\ Len(s.net) = Len(net)
     /\ \A j \in DOMAIN net : j # i => s.net[j] = net[j]
     /\ SubSeq(s.log, 1, Len(log)) = log
     /\ Len(new) = 3
     /\ new[1].k = "recover" /\ new[1].n = e
     /\ new[2].k = "reset"
     /\ new[3].k = "settle" /\ new[3].n = c /\ new[3].a = "rejected"
     /\ new[3].m = TypeError.message
     /\ s.calls[c].state = "rejected"
     /\ s.calls[c].error = TypeError
     /\ s.calls[c].error # InvalidTokenError
     /\ \A d \in DOMAIN calls : d # c => s.calls[d] = calls[d]
     /\ Len(s.episodes) = e
     /\ \A d \in DOMAIN episodes : s.episodes[d] = episodes[d]
     /\ s.episodes[e].timer = "armed"
     /\ ~s.episodes[e].listening
     /\ LET t == TimeoutBody(s, e)
            fired == NewEntries(t, s)
        IN /\ Len(fired) = 1
           /\ fired[1].k = "emit" /\ fired[1].a = "CRITICAL"
           /\ fired[1].b = "UNABLE_TO_AUTHENTICATE" /\ fired[1].n = e
           /\ t.episodes[e].timer = "fired"
           /\ t.calls = s.calls

\* the recovery e of a caller's request rejected its promise with the
\* TypeError of login(), right after its reset, and registered no listener
C36_Unregistered(e) ==
  /\ episodes[e].chain.type = "caller"
  /\ Len(log) >= RecoverAt(e) + 2
  /\ log[RecoverAt(e) + 1].k = "reset"
  /\ log[RecoverAt(e) + 2].k = "settle"
  /\ log[RecoverAt(e) + 2].n = episodes[e].chain.id
  /\ log[RecoverAt(e) + 2].m = TypeError.message

\* C36: on a session authenticated with an authToken only, the invalid-token
\* rejection of a wrapped call clears Token and Account, issues no login
\* request, registers no AUTHENTICATED listener and rejects the caller's
\* promise with the TypeError raised while the login request is built, not
\* with the original error; the timer stays armed, nothing disarms it, and
\* its expiry emits CRITICAL.
C36_TokenOnlyRecovery ==
  /\ C36_TokenOnlySession => \A i \in PendingOf("caller") : C36_Rejected(i)
  /\ \A e \in DOMAIN episodes :
       C36_Unregistered(e) =>
         /\ ~episodes[e].listening
         /\ episodes[e].timer \in {"armed", "fired"}
         /\ episodes[e].timer = "fired" =>
              \E p \in Emitted("CRITICAL") : p > RecoverAt(e) /\ log[p].n = e

\* the timer of such a recovery expired
C36_Witness ==
  \E e \in DOMAIN episodes :
    /\ C36_TokenOnlySession
    /\ C36_Unregistered(e)
    /\ episodes[e].timer = "fired"
    /\ IsInvalidToken(net[OriginOf(e)].error)
    /\ \A i \in DOMAIN net : net[i].uri[1] # "LOGIN"
    /\ \E p \in Emitted("CRITICAL") : log[p].n = e


(***************************************************************************)
(* C37  The logout request of expireToken() is rejected.                   *)
(***************************************************************************)
\* the rejection of the pending logout request i with error: the promise of
\* expireToken() is rejected with error and nothing else changes
C37_Rejected(i, error) ==
  LET s == OnRejected(Cur, i, error)
      c == net[i].chain.id
  IN /\ OnlyAnswered([s EXCEPT !.calls = calls], i)
     /\ s.net[i].status = "rejected" /\ s.net[i].error = error
     /\ s.calls[c].state = "rejected" /\ s.calls[c].error = error
     /\ \A d \in DOMAIN calls : d # c => s.calls[d] = calls[d]
     /\ Len(s.log) = Len(log) + 1
     /\ OneEntry(s).k = "settle" /\ OneEntry(s).n = c
     /\ OneEntry(s).a = "rejected" /\ OneEntry(s).m = error.message
     /\ OneEntry(s).tok = authToken /\ OneEntry(s).acct = account

\* C37: when the logout request of expireToken() is rejected, the returned
\* promise is rejected with that error, Token, Account and the request
\* configuration are unchanged, and no recovery (reset, login request,
\* timer) is started, also when the detail of the error normalizes to
\* "invalidtoken".
C37_LogoutRejectionOnlyRejects ==
  /\ \A i \in PendingOf("logout") : \A error \in FewErrors : C37_Rejected(i, error)
  /\ \A i \in DOMAIN net :
       net[i].chain.type = "logout" /\ net[i].status = "rejected" =>
         /\ calls[net[i].chain.id].state = "rejected"
         /\ calls[net[i].chain.id].error = net[i].error
  /\ \A e \in DOMAIN episodes : net[OriginOf(e)].chain.type # "logout"

\* a logout was rejected with an invalid-token error on an authenticated
\* session, which is left as it was
C37_Witness ==
  \E i \in DOMAIN net :
    /\ net[i].chain.type = "logout" /\ net[i].status = "rejected"
    /\ IsInvalidToken(net[i].error)
    /\ calls[net[i].chain.id].error = net[i].error
    /\ authToken # Null /\ account # Null
    /\ request.headers = AuthorizationHeader(authToken)
    /\ episodes = <<>>
    /\ log[Len(log)].k = "settle"


(***************************************************************************)
(* C38  A wrapped operation that succeeds at its first attempt.            *)
(***************************************************************************)
\* the session of s is the current one: options, token, account, headers,
\* request configuration and recoveries
C38_SessionKept(s) ==
  /\ s.options = options
  /\ s.authToken = authToken /\ s.account = account
  /\ s.headers = headers /\ s.request = request
  /\ s.episodes = episodes

C38_NoEvent(s) == \A p \in (Len(log) + 1)..Len(s.log) : s.log[p].k # "emit"

\* request i was issued by the call itself, not by a replay
C38_FirstAttempt(i) ==
  /\ net[i].chain.type = "caller"
  /\ \A e \in DOMAIN episodes : episodes[e].chain # net[i].chain

\* the call of a wrapped operation issues one request at most and touches
\* nothing else
C38_Called ==
  \A inp \in CallInputs :
    LET s == CallBody(Cur, inp)
    IN /\ C38_SessionKept(s)
       /\ C38_NoEvent(s)
       /\ Len(s.net) <= Len(net) + 1
       /\ \A j \in DOMAIN net : s.net[j] = net[j]

\* the answer to its request resolves the promise with the body and touches
\* nothing else
C38_Answered ==
  \A i \in Pending(Cur) :
    C38_FirstAttempt(i) =>
      \A body \in ResolveBodies(Cur, i) :
        LET s == OnResolved(Cur, i, body)
            c == net[i].chain.id
        IN /\ C38_SessionKept(s)
           /\ C38_NoEvent(s)
           /\ Len(s.net) = Len(net)
           /\ \A j \in DOMAIN net : j # i => s.net[j] = net[j]
           /\ Len(s.log) = Len(log) + 1
           /\ OneEntry(s).k = "settle" /\ OneEntry(s).n = c
           /\ OneEntry(s).a = "resolved"
           /\ s.calls[c].state = "resolved" /\ s.calls[c].value = body
           /\ \A d \in DOMAIN calls : d # c => s.calls[d] = calls[d]

\* C38: a wrapped operation that succeeds at its first attempt leaves
\* Token, Account, the request configuration and the stored options
\* unchanged and emits no event; a successful public getAccounts() does not
\* replace Account and emits neither ACCOUNT_SETUP nor AUTHENTICATED.
C38_SuccessIsSilent == C38_Called /\ C38_Answered

\* a public getAccounts() resolved at its first attempt with a list whose
\* first account is not the one the session holds
C38_Witness ==
  \E c \in DOMAIN calls :
    /\ calls[c].inp.op = "getAccounts"
    /\ calls[c].state = "resolved"
    /\ calls[c].value.results # <<>>
    /\ Head(calls[c].value.results) # account
    /\ account # Null /\ authToken # Null
    /\ episodes = <<>>
    /\ log[Len(log)].k = "settle"
    /\ \A p \in DOMAIN log : log[p].k = "emit" => \E q \in (p + 1)..Len(log) : log[q].k = "call"


(***************************************************************************)
(* C39  Orders and the account.                                            *)
(***************************************************************************)
\* placeBuyOrder / placeSellOrder called now: with no account the call
\* throws and issues nothing, with an account it posts the order of that
\* account
C39_Called ==
  \A inp \in OrderInputs :
    LET s == CallBody(Cur, inp)
        c == Len(calls) + 1
    IN IF account \in {Null, Undefined}
       THEN /\ Len(s.net) = Len(net)
            /\ s.calls[c].state = "threw"
            /\ s.log[Len(s.log)].k = "throw" /\ s.log[Len(s.log)].a = "TypeError"
       ELSE /\ Len(s.net) = Len(net) + 1
            /\ s.net[Len(s.net)].uri = <<"ORDERS">>
            /\ s.net[Len(s.net)].form.account = account
            /\ s.calls[c].state = "pending"

\* every order request that was issued names an account
C39_IssuedWithAccount ==
  \A i \in DOMAIN net :
    net[i].uri = <<"ORDERS">> /\ net[i].method = "post" =>
      net[i].form.account \notin {Null, Undefined}

\* request m is the replay of recovery e
C39_ReplayOf(m, e) ==
  /\ net[m].uri = <<"ORDERS">> /\ net[m].method = "post"
  /\ net[m].chain = episodes[e].chain
  /\ RequestAt(m) > RecoverAt(e)
  /\ \A d \in DOMAIN episodes :
       episodes[d].chain = episodes[e].chain /\ RecoverAt(d) < RequestAt(m) => d <= e

\* the replay m of recovery e names the first account of a list fetched
\* after the recovery began
C39_FreshAccount(m, e) ==
  \E k \in DOMAIN net :
    /\ net[k].uri = <<"ACCOUNTS">> /\ net[k].chain.type = "setAccount"
    /\ net[k].status = "resolved" /\ net[k].body.results # <<>>
    /\ RecoverAt(e) < RequestAt(k) /\ RequestAt(k) < RequestAt(m)
    /\ net[m].form.account = Head(net[k].body.results)

C39_ReplayNamesNewAccount ==
  \A e \in DOMAIN episodes : \A m \in DOMAIN net :
    C39_ReplayOf(m, e) => C39_FreshAccount(m, e)

\* C39: placeBuyOrder / placeSellOrder issue a request only when Account is
\* non-null; called while Account is null they issue no request and throw
\* synchronously; the replay of an order after a recovery names the account
\* the re-authentication of that recovery obtained.
C39_OrdersAndAccount ==
  C39_Called /\ C39_IssuedWithAccount /\ C39_ReplayNamesNewAccount
=============================================================================
